---------------------------- MODULE Spec2Model ----------------------------
(***************************************************************************)
(* Model of the versioning core of local-versioning:                       *)
(*   GitService  (history store)      src/unnamed/part_005, lines 87-449   *)
(*   FileWatcher (change scheduler)   src/unnamed/part_005, lines 465-666  *)
(*   main process IPC handlers        src/electron/types.ts, lines 44-835  *)
(*                                                                         *)
(* One watched folder.  Every git command that the code awaits is one      *)
(* step: the command's effect on the store together with the JavaScript    *)
(* that runs when it completes, up to the next awaited command.  The       *)
(* synchronous prefix of a handler is part of the step that starts it.     *)
(* git finds the store of a working tree through <workingDir>/.git (a      *)
(* directory, or a "gitdir:" link file written by                          *)
(* git init --separate-git-dir); GitService passes no --git-dir.           *)
(***************************************************************************)
EXTENDS Integers, Sequences, FiniteSets, TLC

\* ------------------------------------------------------------- bounds
MaxClock == 3
MaxCommits == 3
MaxStores == 3
MaxEdits == 2

\* --------------------------------------------------------- value sets
UserFiles == {"a", "b"}
GitIgnore == ".gitignore"
Files == UserFiles \cup {GitIgnore}
Absent == "absent"
Contents == {"c1", "c2"}
EmptyTree == [f \in Files |-> Absent]

Wids == {"w1", "w2"}
TimerIds == {1, 2, 3}
StoreIds == 1..MaxStores

BaseNames == {"Wgit", "X", "Y"}
Paths == BaseNames \X (0..MaxClock)
NoPath == <<"none", 0>>
P(b) == <<b, 0>>

VARIABLES
  fs,            \* the directories that can hold a store: [Paths -> entry]
  stores,        \* [StoreIds -> [commits, index]]: commit chain, staging area
  disk,          \* the working tree: [Files -> content or Absent]
  now,           \* wall clock, in seconds
  folder,        \* the folder's WatchedFolder record in ConfigService
  gitServices,   \* main process: cached GitService of the folder, or none
  fileWatchers,  \* main process: registered FileWatcher of the folder, or none
  fw,            \* FileWatcher instances: [Wids -> record]
  rst,           \* the restore-file handler in progress
  mig,           \* the migrate-git-repository handler in progress
  edits,         \* number of user edits so far (bounded)
  rd,            \* the last read request of the UI and its answer
  watchedFolders \* ConfigService: path and storage location of every folder

vars == <<fs, stores, disk, now, folder, gitServices, fileWatchers, fw, rst,
          mig, edits, rd, watchedFolders>>

\* ------------------------------------------------------- small helpers
Range(s) == {s[i] : i \in 1..Len(s)}
Last(s) == s[Len(s)]
\* pendingChanges is a JavaScript Set: insertion ordered, no duplicates
SetAdd(s, x) == IF x \in Range(s) THEN s ELSE Append(s, x)

\* ----------------------------------------------------------- filesystem
FsNone == [k |-> "none", s |-> 0, to |-> NoPath]
FsDir(s) == [k |-> "dir", s |-> s, to |-> NoPath]
FsFile(p) == [k |-> "file", s |-> 0, to |-> p]

\* path.join(folder.path, '.git')
DefaultGitPath == P("Wgit")
\* `${p}-backup-${timestamp}`, the timestamp cut to seconds
BackupPath(p, t) == <<p[1], t>>

existsSync(fsv, p) == fsv[p].k # "none"

\* The store a git command run with baseDir = workingDir acts on (0: none).
Resolve(fsv) ==
  LET e == fsv[DefaultGitPath] IN
  IF e.k = "dir" THEN e.s
  ELSE IF e.k = "file" /\ fsv[e.to].k = "dir" THEN fsv[e.to].s
  ELSE 0

\* The store of git --git-dir p (0: none).
ResolveDir(fsv, p) ==
  LET e == fsv[p] IN
  IF e.k = "dir" THEN e.s
  ELSE IF e.k = "file" /\ fsv[e.to].k = "dir" THEN fsv[e.to].s
  ELSE 0

\* fs.renameSync(src, dst): the filesystem afterwards, or the same filesystem
\* when the call throws (ENOENT, ENOTEMPTY, ENOTDIR, EISDIR).
RenameOk(fsv, src, dst) ==
  /\ fsv[src].k # "none"
  /\ \/ fsv[dst].k = "none"
     \/ fsv[src].k = "file" /\ fsv[dst].k = "file"
renameSyncCopy(fsv, src, dst) == [fsv EXCEPT ![dst] = fsv[src]]
renameSync(fsv, src, dst) ==
  [fsv EXCEPT ![dst] = fsv[src], ![src] = FsNone]

NewStoreId == Cardinality({p \in Paths : fs[p].k = "dir"}) + 1

\* ------------------------------------------------------------ git store
EmptyStore == [commits |-> <<>>, index |-> EmptyTree]
HeadTree(st) == IF st.commits = <<>> THEN EmptyTree ELSE Last(st.commits).tree
Hashes(st) == {st.commits[i].hash : i \in 1..Len(st.commits)}
CommitOf(st, h) == CHOOSE c \in Range(st.commits) : c.hash = h

\* git add <paths>: fails on a path that is neither on disk nor in the index
GitAddOk(st, dsk, paths) ==
  \A f \in paths : dsk[f] # Absent \/ st.index[f] # Absent
GitAdd(st, dsk, paths) ==
  [st EXCEPT !.index = [f \in Files |-> IF f \in paths THEN dsk[f] ELSE @[f]]]
\* git add .
GitAddAllTracked(st, dsk) ==
  [st EXCEPT !.index = [f \in Files |-> IF @[f] # Absent THEN dsk[f] ELSE @[f]]]
GitAddAll(st, dsk) == [st EXCEPT !.index = dsk]

\* status.staged and status.files of simple-git
StatusStaged(st) == {f \in Files : st.index[f] # HeadTree(st)[f]}
StatusFiles(st, dsk) ==
  {f \in Files : st.index[f] # HeadTree(st)[f] \/ dsk[f] # st.index[f]}

\* git commit -m msg: records the index; creates nothing when the index
\* equals HEAD (git exits 1 with nothing on stderr, simple-git returns an
\* empty hash and does not throw).
GitCommitCreates(st) == st.index # HeadTree(st)
GitCommit(st, sid, msg, t) ==
  IF GitCommitCreates(st)
  THEN [st EXCEPT !.commits = Append(@, [hash |-> <<sid, Len(@) + 1>>,
                                          time |-> t, msg |-> msg,
                                          tree |-> st.index])]
  ELSE st

\* git log throws on a store without commits
HasLog(st) == st.commits # <<>>

\* ------------------------------------------------- GitService, reading
LookupWindow == 100

\* getCommits: positions (1 = oldest) of the commits in the window of `limit`
Window(st, limit) ==
  {i \in 1..Len(st.commits) : i > Len(st.commits) - limit}
TreeAt(st, i) == IF i = 0 THEN EmptyTree ELSE st.commits[i].tree
\* getCommits: changedFiles of the commit at position i.  Both branches
\* (git show --name-only, git diff --stat hash^ hash) list the paths that
\* differ from the parent, all paths of the tree for the root commit.
ChangedFiles(st, i) == {f \in Files : TreeAt(st, i)[f] # TreeAt(st, i - 1)[f]}

PosOf(st, h) == CHOOSE i \in 1..Len(st.commits) : st.commits[i].hash = h

\* getFileContent(commitHash, filePath): git show hash:path
getFileContentOk(st, h, f) == h \in Hashes(st) /\ CommitOf(st, h).tree[f] # Absent
getFileContent(st, h, f) == CommitOf(st, h).tree[f]

\* getFileContentSafe: the positions probed after a failed direct lookup
commitsWithFile(st, f) == {i \in Window(st, LookupWindow) : f \in ChangedFiles(st, i)}
SafeCandidates(st, h, f) ==
  LET with == commitsWithFile(st, f) IN
  IF h \in Hashes(st) /\ PosOf(st, h) \in with
  THEN {i \in with : i < PosOf(st, h) /\ TreeAt(st, i)[f] # Absent}
  ELSE {}
getFileContentSafeOk(st, h, f) ==
  getFileContentOk(st, h, f) \/ SafeCandidates(st, h, f) # {}
getFileContentSafe(st, h, f) ==
  IF getFileContentOk(st, h, f) THEN getFileContent(st, h, f)
  ELSE LET cands == SafeCandidates(st, h, f)
           i == CHOOSE j \in cands : \A k \in cands : k <= j
       IN TreeAt(st, i)[f]

\* ------------------------------------------------------ record shapes
NoGs == [has |-> FALSE, custom |-> NoPath]
Gs(c) == [has |-> TRUE, custom |-> c]

InitW == [st |-> "unused", gs |-> NoPath, strategy |-> "on-save",
          pending |-> <<>>, armed |-> {}, debounceTimer |-> 0,
          periodicTimer |-> FALSE, isCommitting |-> FALSE, files |-> <<>>,
          pc |-> "idle", hasCommits |-> FALSE, caller |-> "none",
          parent |-> "none", many |-> FALSE, res |-> "none",
          made |-> FALSE, calls |-> 0, periodicInterval |-> 5,
          watchDepth |-> "all"]

InitRst == [pc |-> "idle", path |-> "a", ref |-> <<0, 0>>, result |-> "none",
            c |-> Absent, preLen |-> 0]

\* no read has been asked for yet
InitRd == [op |-> "none"]
NoList == [ok |-> FALSE, hashes |-> <<>>]
InitMig == [pc |-> "idle", target |-> NoPath, old |-> NoPath, oldLast |-> 0,
            newLast |-> 0, result |-> "none", after |-> "none", renames |-> 0,
            replaced |-> FALSE,
            preFs |-> [p \in Paths |-> FsNone], preCustom |-> NoPath,
            preCommits |-> [s \in StoreIds |-> <<>>],
            preList |-> NoList, prevTarget |-> NoPath, prevResult |-> "none"]

\* the folder's effective storage location
\* folder.customGitPath || path.join(folder.path, '.git')
EffectivePath(fld) ==
  IF fld.customGitPath # NoPath THEN fld.customGitPath ELSE DefaultGitPath

\* GitService.initialize: gitDir
InitGitDir(gs) == IF gs # NoPath THEN gs ELSE DefaultGitPath

CommitPcs == {"c_status0", "c_log", "c_add", "c_status", "c_commit"}
InitPcs == {"i_init", "i_config", "i_status", "i_add", "i_status2", "i_commit"}

\* =================================================== FileWatcher (pure)
\* the paths the observer reports
WatchedPaths == UserFiles

handleFileChangeAlwaysDebounce(r, p) ==
  LET cleared == r.armed \ {r.debounceTimer}
      t == CHOOSE x \in TimerIds : x \notin cleared
  IN [r EXCEPT !.pending = SetAdd(@, p), !.armed = cleared \cup {t},
               !.debounceTimer = t]
\* FileWatcher.handleFileChange(filePath), on the instance record r
handleFileChangeW(r, p) ==
  LET cleared == r.armed \ {r.debounceTimer}
      t == CHOOSE x \in TimerIds : x \notin cleared
  IN IF r.strategy = "on-save"
     THEN [r EXCEPT !.pending = SetAdd(@, p), !.armed = cleared \cup {t},
                    !.debounceTimer = t]
     ELSE [r EXCEPT !.pending = SetAdd(@, p)]

\* GitService.commit, synchronous prefix: the first awaited command.
\* Lines 213-217: initialize() is called when <workingDir>/.git is missing;
\* initialize() returns at once when its own gitDir exists (line 126).
CommitEntryPc(fsv, gs) ==
  IF existsSync(fsv, DefaultGitPath) \/ existsSync(fsv, InitGitDir(gs))
  THEN "c_status0" ELSE "i_init"

\* FileWatcher.commitPendingChanges up to its await (lines 625-641);
\* calls counts the GitService.commit calls that have not returned
commitPendingChangesNoGuard(r, fsv) ==
  IF r.pending = <<>> THEN r
  ELSE [r EXCEPT !.isCommitting = TRUE, !.files = r.pending,
                 !.pending = <<>>, !.pc = CommitEntryPc(fsv, r.gs),
                 !.made = FALSE, !.calls = @ + 1,
                 !.caller = IF CommitEntryPc(fsv, r.gs) = "i_init"
                            THEN "commit" ELSE "none"]
commitPendingChangesW(r, fsv) ==
  IF r.isCommitting \/ r.pending = <<>> THEN r
  ELSE [r EXCEPT !.isCommitting = TRUE, !.files = r.pending,
                 !.pending = <<>>, !.pc = CommitEntryPc(fsv, r.gs),
                 !.made = FALSE, !.calls = @ + 1,
                 !.caller = IF CommitEntryPc(fsv, r.gs) = "i_init"
                            THEN "commit" ELSE "none"]

\* an instance nothing refers to any more
Collect(r) == IF r.st = "stopped" /\ r.pc = "idle" THEN InitW ELSE r

\* commitPendingChanges after the await: onCommit / onError, then the
\* finally block (lines 643-656).  res: "created" (a hash was returned and
\* onCommit called), "empty" or "error" (onError called).  made records
\* whether a git commit run by this attempt has added a commit.
CommitReturnClearsLate(r, res) ==
  Collect([r EXCEPT !.isCommitting = FALSE, !.pc = "idle", !.files = <<>>,
                    !.pending = <<>>,
                    !.res = res, !.caller = "none", !.hasCommits = FALSE,
                    !.calls = @ - 1])
CommitReturnRetries(r, res) ==
  Collect([r EXCEPT !.isCommitting = FALSE, !.pc = "idle", !.files = <<>>,
                    !.pending = IF res = "error" /\ r.pending = <<>>
                                THEN r.files ELSE @,
                    !.res = res, !.caller = "none", !.hasCommits = FALSE,
                    !.calls = @ - 1])
CommitReturn(r, res) ==
  Collect([r EXCEPT !.isCommitting = FALSE, !.pc = "idle", !.files = <<>>,
                    !.res = res, !.caller = "none", !.hasCommits = FALSE,
                    !.calls = @ - 1])

\* FileWatcher.stop (lines 581-598)
StopWKeepsTimers(r) == Collect([r EXCEPT !.st = "stopped"])
StopW(r) ==
  Collect([r EXCEPT !.st = "stopped", !.armed = @ \ {r.debounceTimer},
                    !.debounceTimer = 0, !.periodicTimer = FALSE])

\* FileWatcher.start after initialize() returned (lines 504-574)
Attach(r) ==
  [r EXCEPT !.st = "watching", !.pc = "idle", !.caller = "none",
            !.periodicTimer = (r.strategy = "periodic")]

Free(r) == r.st = "unused"

\* ======================================================== git init
\* follow a "gitdir:" link file
RealPath(fsv, p) == IF fsv[p].k = "file" THEN fsv[p].to ELSE p
Dangling(fsv, p) == fsv[p].k = "file" /\ fsv[fsv[p].to].k # "dir"
\* the directory of the repository git finds from workingDir (NoPath: none)
WorkRepo(fsv) ==
  IF fsv[DefaultGitPath].k = "none" THEN NoPath
  ELSE RealPath(fsv, DefaultGitPath)

\* git init (gs = NoPath) and git init --separate-git-dir=gs, run in
\* workingDir: an existing repository is re-initialised in place, or moved to
\* the separate directory when that path is free; git fails on a dangling
\* link and when the move would land on an existing directory.
GitInitOk(fsv, gs) ==
  /\ ~Dangling(fsv, DefaultGitPath)
  /\ gs # NoPath =>
       /\ ~Dangling(fsv, gs)
       /\ \/ WorkRepo(fsv) = NoPath
          \/ WorkRepo(fsv) = RealPath(fsv, gs)
          \/ fsv[gs].k = "none"
GitInitCreates(fsv, gs) ==
  /\ fsv[DefaultGitPath].k = "none"
  /\ gs # NoPath => fsv[gs].k = "none"
GitInit(fsv, gs, sid) ==
  IF gs = NoPath
  THEN IF fsv[DefaultGitPath].k = "none"
       THEN [fsv EXCEPT ![DefaultGitPath] = FsDir(sid)] ELSE fsv
  ELSE LET T == RealPath(fsv, gs)
           C == WorkRepo(fsv)
       IN IF C = NoPath
          THEN IF fsv[T].k = "none"
               THEN [fsv EXCEPT ![T] = FsDir(sid), ![DefaultGitPath] = FsFile(T)]
               ELSE [fsv EXCEPT ![DefaultGitPath] = FsFile(T)]
          ELSE IF C = T THEN fsv
          ELSE [fsv EXCEPT ![T] = fsv[C], ![C] = FsNone,
                           ![DefaultGitPath] = FsFile(T)]

\* fs.readdirSync(workingDir).length at line 172
DirEntries(fsv, dsk) ==
  Cardinality({f \in Files : dsk[f] # Absent})
    + (IF existsSync(fsv, DefaultGitPath) THEN 1 ELSE 0)

\* ================================================ main process (pure)
\* the part of the state the main-process helpers work on
MainState ==
  [fw |-> fw, fileWatchers |-> fileWatchers, gitServices |-> gitServices,
   folder |-> folder, suspended |-> FALSE]

\* getOrCreateGitService (lines 780-789)
getOrCreateGitService(m) ==
  IF m.gitServices.has THEN m.gitServices ELSE Gs(m.folder.customGitPath)

\* the configuration has no record with the folder's id any more
RemovedFolder == [removed |-> TRUE]
Listed(fld) == "removed" \notin DOMAIN fld

\* ConfigService.updateFolder(folderId, updates): the record with the id
\* gets the updates; nothing happens when no record has the id
updateFolder(fld, updates) ==
  IF Listed(fld)
  THEN [k \in DOMAIN fld |-> IF k \in DOMAIN updates THEN updates[k] ELSE fld[k]]
  ELSE fld

\* stopWatchingFolder (lines 825-834)
stopWatchingFolder(m) ==
  LET w == m.fileWatchers IN
  [m EXCEPT !.fw = IF w # "none" THEN [m.fw EXCEPT ![w] = StopW(m.fw[w])]
                   ELSE m.fw,
            !.fileWatchers = "none",
            !.folder = updateFolder(m.folder, [isActive |-> FALSE])]

\* a FileWatcher object is available for `new FileWatcher`
CanStart(m) == m.fileWatchers # "none" \/ \E x \in Wids : Free(m.fw[x])

\* The options the FileWatcher constructor keeps (lines 486-492) of those
\* startWatchingFolder passes (lines 803-807): commitStrategy,
\* periodicInterval and ignorePatterns are copied, watchSubfolders is not.
FileWatcherOptions(fld) ==
  [commitStrategy |-> fld.commitStrategy,
   periodicInterval |-> IF fld.periodicInterval # 0 THEN fld.periodicInterval
                        ELSE 5]

\* FileWatcher.start line 515: this.options.watchSubfolders !== false ?
\* undefined : 0, read from the options the constructor kept
watchDepth(options) ==
  IF "watchSubfolders" \in DOMAIN options /\ options.watchSubfolders = FALSE
  THEN "top" ELSE "all"

\* startWatchingFolder up to the first awaited git command (lines 791-823);
\* suspended: watcher.start() is waiting for git init
startWatchingFolder(m, fsv, parent) ==
  LET gsv == getOrCreateGitService(m)
      w == CHOOSE x \in Wids : Free(m.fw[x])
      options == FileWatcherOptions(m.folder)
      r0 == [InitW EXCEPT !.gs = gsv.custom,
                          !.strategy = options.commitStrategy,
                          !.periodicInterval = options.periodicInterval,
                          !.watchDepth = watchDepth(options),
                          !.parent = parent]
  IN IF m.fileWatchers # "none" \/ ~Listed(m.folder) THEN m
     ELSE IF existsSync(fsv, InitGitDir(gsv.custom))
     THEN [m EXCEPT !.fw = [m.fw EXCEPT ![w] = Attach(r0)],
                    !.fileWatchers = w, !.gitServices = gsv,
                    !.folder = updateFolder(m.folder, [isActive |-> TRUE])]
     ELSE [m EXCEPT !.fw = [m.fw EXCEPT ![w] =
                              [r0 EXCEPT !.st = "starting", !.pc = "i_init",
                                         !.caller = "start"]],
                    !.gitServices = gsv, !.suspended = TRUE]

\* write a main state back
SetMain(m) ==
  /\ fw' = m.fw
  /\ fileWatchers' = m.fileWatchers
  /\ gitServices' = m.gitServices
  /\ folder' = m.folder

\* ============================================================ messages
Msg(kind, files, ref) == [kind |-> kind, files |-> files, ref |-> ref]
NoRef == <<0, 0>>
GitIgnoreText == "c1"

CommitRoom(s) == GitCommitCreates(stores[s]) => Len(stores[s].commits) < MaxCommits

\* ====================================================== the scheduler
\* chokidar add / change / unlink event for path p
HandleFileChange(w, p) ==
  /\ fw[w].st = "watching"
  /\ fw' = [fw EXCEPT ![w] = handleFileChangeW(fw[w], p)]
  /\ UNCHANGED <<fs, stores, disk, now, folder, gitServices, fileWatchers,
                 rst, mig, edits, rd, watchedFolders>>

\* the debounce timer expires (the handle stays in debounceTimer)
DebounceFire(w) ==
  /\ \E t \in fw[w].armed :
       fw' = [fw EXCEPT ![w] =
                commitPendingChangesW([fw[w] EXCEPT !.armed = @ \ {t}], fs)]
  /\ UNCHANGED <<fs, stores, disk, now, folder, gitServices, fileWatchers,
                 rst, mig, edits, rd, watchedFolders>>

\* the periodic interval elapses
PeriodicTick(w) ==
  /\ fw[w].periodicTimer
  /\ fw' = [fw EXCEPT ![w] = commitPendingChangesW(fw[w], fs)]
  /\ UNCHANGED <<fs, stores, disk, now, folder, gitServices, fileWatchers,
                 rst, mig, edits, rd, watchedFolders>>

\* ------------------------------------------- GitService.commit, by command
CommitThrows(w) ==
  /\ fw' = [fw EXCEPT ![w] = CommitReturn(fw[w], "error")]
  /\ UNCHANGED <<fs, stores, disk, now, folder, gitServices, fileWatchers,
                 rst, mig, edits, rd, watchedFolders>>

\* line 220: git status
CStatus0(w) ==
  /\ fw[w].pc = "c_status0"
  /\ IF Resolve(fs) = 0 THEN CommitThrows(w)
     ELSE /\ fw' = [fw EXCEPT ![w].pc = "c_log"]
          /\ UNCHANGED <<fs, stores, disk, now, folder, gitServices,
                         fileWatchers, rst, mig, edits, rd, watchedFolders>>

\* line 224: git log, a failure read as "no commits"
CLog(w) ==
  /\ fw[w].pc = "c_log"
  /\ fw' = [fw EXCEPT ![w].pc = "c_add",
                      ![w].hasCommits = /\ Resolve(fs) # 0
                                        /\ HasLog(stores[Resolve(fs)])]
  /\ UNCHANGED <<fs, stores, disk, now, folder, gitServices, fileWatchers,
                 rst, mig, edits, rd, watchedFolders>>

\* lines 227-234: git add . or git add <changedFiles>
CAdd(w) ==
  LET s == Resolve(fs) IN
  /\ fw[w].pc = "c_add"
  /\ IF s = 0 \/ (fw[w].hasCommits /\ ~GitAddOk(stores[s], disk, Range(fw[w].files)))
     THEN CommitThrows(w)
     ELSE /\ stores' = [stores EXCEPT ![s] =
                          IF fw[w].hasCommits
                          THEN GitAdd(stores[s], disk, Range(fw[w].files))
                          ELSE GitAddAll(stores[s], disk)]
          /\ fw' = [fw EXCEPT ![w].pc = "c_status"]
          /\ UNCHANGED <<fs, disk, now, folder, gitServices, fileWatchers,
                         rst, mig, edits, rd, watchedFolders>>

\* lines 237-243: git status; nothing staged and nothing dirty returns ''
CStatus(w) ==
  LET s == Resolve(fs) IN
  /\ fw[w].pc = "c_status"
  /\ IF s = 0 THEN CommitThrows(w)
     ELSE /\ fw' = [fw EXCEPT ![w] =
                      IF StatusStaged(stores[s]) = {} /\ StatusFiles(stores[s], disk) = {}
                      THEN CommitReturn(fw[w], "empty")
                      ELSE [fw[w] EXCEPT !.pc = "c_commit"]]
          /\ UNCHANGED <<fs, stores, disk, now, folder, gitServices,
                         fileWatchers, rst, mig, edits, rd, watchedFolders>>

\* lines 246-257: git commit -m message
CCommit(w) ==
  LET s == Resolve(fs) IN
  /\ fw[w].pc = "c_commit"
  /\ IF s = 0 THEN CommitThrows(w)
     ELSE /\ CommitRoom(s)
          /\ stores' = [stores EXCEPT ![s] =
                          GitCommit(stores[s], s,
                                    Msg(IF fw[w].hasCommits THEN "Auto" ELSE "Initial",
                                        fw[w].files, NoRef), now)]
          /\ fw' = [fw EXCEPT ![w] =
                      CommitReturn([fw[w] EXCEPT !.made =
                                      @ \/ GitCommitCreates(stores[s])],
                                   IF GitCommitCreates(stores[s])
                                   THEN "created" ELSE "empty")]
          /\ UNCHANGED <<fs, disk, now, folder, gitServices, fileWatchers,
                         rst, mig, edits, rd, watchedFolders>>

\* ------------------------------------- GitService.initialize, by command
\* initialize() returned to its caller: GitService.commit goes on with git
\* status; FileWatcher.start attaches the observer and startWatchingFolder
\* registers the instance (lines 818-822), then the handler that awaited
\* startWatchingFolder returns.
InitReturns(w, made) ==
  IF fw[w].caller = "commit"
  THEN /\ fw' = [fw EXCEPT ![w].pc = "c_status0", ![w].caller = "none",
                           ![w].made = made]
       /\ UNCHANGED <<fileWatchers, folder, mig>>
  ELSE /\ fw' = [fw EXCEPT ![w] = Attach(fw[w])]
       /\ fileWatchers' = w
       /\ folder' = updateFolder(folder, [isActive |-> TRUE])
       /\ mig' = IF fw[w].parent = "mig"
                 THEN [mig EXCEPT !.pc = "done", !.result = mig.after]
                 ELSE mig

InitThrowsAttaches(w) ==
  IF fw[w].caller = "commit"
  THEN /\ fw' = [fw EXCEPT ![w] = CommitReturn(fw[w], "error")]
       /\ UNCHANGED <<fileWatchers, folder, mig>>
  ELSE /\ fw' = [fw EXCEPT ![w] = Attach(fw[w])]
       /\ fileWatchers' = w
       /\ mig' = IF fw[w].parent = "mig"
                 THEN [mig EXCEPT !.pc = "done", !.result = "fail_throw"]
                 ELSE mig
       /\ UNCHANGED folder

\* initialize() threw: GitService.commit rethrows into commitPendingChanges;
\* FileWatcher.start rethrows, the instance is dropped, and the migrate
\* handler's outer catch returns a failure.
InitThrows(w) ==
  IF fw[w].caller = "commit"
  THEN /\ fw' = [fw EXCEPT ![w] = CommitReturn(fw[w], "error")]
       /\ UNCHANGED <<fileWatchers, folder, mig>>
  ELSE /\ fw' = [fw EXCEPT ![w] = InitW]
       /\ mig' = IF fw[w].parent = "mig"
                 THEN [mig EXCEPT !.pc = "done", !.result = "fail_throw"]
                 ELSE mig
       /\ UNCHANGED <<fileWatchers, folder>>

\* lines 138-146: git init
IInit(w) ==
  /\ fw[w].pc = "i_init"
  /\ IF ~GitInitOk(fs, fw[w].gs)
     THEN /\ InitThrows(w)
          /\ UNCHANGED <<fs, stores, disk, now, gitServices, rst, edits, rd,
            watchedFolders>>
     ELSE /\ GitInitCreates(fs, fw[w].gs) => NewStoreId <= MaxStores
          /\ fs' = GitInit(fs, fw[w].gs, NewStoreId)
          /\ fw' = [fw EXCEPT ![w].pc = "i_config"]
          /\ UNCHANGED <<stores, disk, now, folder, gitServices,
                         fileWatchers, rst, mig, edits, rd, watchedFolders>>

\* lines 149-172: git config (errors swallowed), then .gitignore is written
\* and the directory listed
IConfig(w) ==
  LET dsk == IF disk[GitIgnore] = Absent
             THEN [disk EXCEPT ![GitIgnore] = GitIgnoreText] ELSE disk
  IN /\ fw[w].pc = "i_config"
     /\ disk' = dsk
     /\ fw' = [fw EXCEPT ![w].pc = "i_status",
                         ![w].many = DirEntries(fs, dsk) > 1]
     /\ UNCHANGED <<fs, stores, now, folder, gitServices, fileWatchers, rst,
                    mig, edits, rd, watchedFolders>>

\* lines 176-179: git status, then the test files.length > 1
IStatus(w) ==
  /\ fw[w].pc = "i_status"
  /\ IF Resolve(fs) = 0 THEN InitThrows(w)
     ELSE IF fw[w].many
     THEN /\ fw' = [fw EXCEPT ![w].pc = "i_add"]
          /\ UNCHANGED <<fileWatchers, folder, mig>>
     ELSE InitReturns(w, FALSE)
  /\ UNCHANGED <<fs, stores, disk, now, gitServices, rst, edits, rd,
    watchedFolders>>

\* line 180: git add .
IAdd(w) ==
  LET s == Resolve(fs) IN
  /\ fw[w].pc = "i_add"
  /\ IF s = 0
     THEN InitThrows(w) /\ UNCHANGED stores
     ELSE /\ stores' = [stores EXCEPT ![s] = GitAddAll(stores[s], disk)]
          /\ fw' = [fw EXCEPT ![w].pc = "i_status2"]
          /\ UNCHANGED <<fileWatchers, folder, mig>>
  /\ UNCHANGED <<fs, disk, now, gitServices, rst, edits, rd, watchedFolders>>

\* lines 181-184: git status after the add
IStatus2(w) ==
  LET s == Resolve(fs) IN
  /\ fw[w].pc = "i_status2"
  /\ IF s = 0 THEN InitThrows(w)
     ELSE IF StatusStaged(stores[s]) # {}
     THEN /\ fw' = [fw EXCEPT ![w].pc = "i_commit"]
          /\ UNCHANGED <<fileWatchers, folder, mig>>
     ELSE InitReturns(w, FALSE)
  /\ UNCHANGED <<fs, stores, disk, now, gitServices, rst, edits, rd,
    watchedFolders>>

\* line 185: git commit -m 'Initial commit by Local Versioning'
ICommit(w) ==
  LET s == Resolve(fs) IN
  /\ fw[w].pc = "i_commit"
  /\ IF s = 0
     THEN InitThrows(w) /\ UNCHANGED stores
     ELSE /\ CommitRoom(s)
          /\ stores' = [stores EXCEPT ![s] =
                          GitCommit(stores[s], s, Msg("InitialLV", <<>>, NoRef), now)]
          /\ InitReturns(w, GitCommitCreates(stores[s]))
  /\ UNCHANGED <<fs, disk, now, gitServices, rst, edits, rd, watchedFolders>>

\* ======================================================== restore-file
\* get-commits: the hashes getCommits returns (ok = FALSE: it throws)
listCommits(fsv, sts) ==
  IF Resolve(fsv) = 0 THEN NoList
  ELSE [ok |-> TRUE,
        hashes |-> [i \in 1..Len(sts[Resolve(fsv)].commits) |->
                      sts[Resolve(fsv)].commits[i].hash]]

\* ipcMain.handle('restore-file') up to the first awaited command of
\* GitService.restoreFile; ref is a commit the history view shows, c and
\* preLen record the content at ref and the length of the history.
RestoreBegin(f, ref) ==
  LET s == Resolve(fs) IN
  /\ rst.pc \in {"idle", "done"}
  /\ s # 0
  /\ ref \in Hashes(stores[s])
  /\ rst' = [pc |-> "r_show", path |-> f, ref |-> ref, result |-> "none",
             c |-> CommitOf(stores[s], ref).tree[f],
             preLen |-> Len(stores[s].commits)]
  /\ gitServices' = getOrCreateGitService(MainState)
  /\ UNCHANGED <<fs, stores, disk, now, folder, fileWatchers, fw, mig, edits, rd,
    watchedFolders>>

RestoreThrows ==
  /\ rst' = [rst EXCEPT !.pc = "done", !.result = "fail"]
  /\ UNCHANGED <<fs, stores, disk, now, folder, gitServices, fileWatchers,
                 fw, mig, edits, rd, watchedFolders>>

\* lines 416-427: getFileContentSafe, then the content is written to disk
RShow ==
  LET s == Resolve(fs) IN
  /\ rst.pc = "r_show"
  /\ IF s = 0 \/ ~getFileContentSafeOk(stores[s], rst.ref, rst.path)
     THEN RestoreThrows
     ELSE /\ disk' = [disk EXCEPT ![rst.path] =
                        getFileContentSafe(stores[s], rst.ref, rst.path)]
          /\ rst' = [rst EXCEPT !.pc = "r_add"]
          /\ UNCHANGED <<fs, stores, now, folder, gitServices, fileWatchers,
                         fw, mig, edits, rd, watchedFolders>>

\* line 430: git add filePath
RAdd ==
  LET s == Resolve(fs) IN
  /\ rst.pc = "r_add"
  /\ IF s = 0 \/ ~GitAddOk(stores[s], disk, {rst.path})
     THEN RestoreThrows
     ELSE /\ stores' = [stores EXCEPT ![s] = GitAdd(stores[s], disk, {rst.path})]
          /\ rst' = [rst EXCEPT !.pc = "r_commit"]
          /\ UNCHANGED <<fs, disk, now, folder, gitServices, fileWatchers,
                         fw, mig, edits, rd, watchedFolders>>

\* line 432: git commit -m 'Restored <name> from <hash> at <time>'
RCommit ==
  LET s == Resolve(fs) IN
  /\ rst.pc = "r_commit"
  /\ IF s = 0 THEN RestoreThrows
     ELSE /\ CommitRoom(s)
          /\ stores' = [stores EXCEPT ![s] =
                          GitCommit(stores[s], s,
                                    Msg("Restored", <<rst.path>>, rst.ref), now)]
          /\ rst' = [rst EXCEPT !.pc = "done", !.result = "ok"]
          /\ UNCHANGED <<fs, disk, now, folder, gitServices, fileWatchers,
                         fw, mig, edits, rd, watchedFolders>>

\* ============================================ start / stop / update-folder
\* ipcMain.handle('start-watching')
StartWatching ==
  /\ CanStart(MainState)
  /\ SetMain(startWatchingFolder(MainState, fs, "none"))
  /\ UNCHANGED <<fs, stores, disk, now, rst, mig, edits, rd, watchedFolders>>

\* ipcMain.handle('stop-watching')
StopWatching ==
  /\ SetMain(stopWatchingFolder(MainState))
  /\ UNCHANGED <<fs, stores, disk, now, rst, mig, edits, rd, watchedFolders>>

\* ipcMain.handle('update-folder') with updates = {commitStrategy: s}
UpdateFolder(s) ==
  LET m0 == [MainState EXCEPT !.folder = [folder EXCEPT !.commitStrategy = s]]
      m1 == stopWatchingFolder(m0)
  IN /\ IF fileWatchers # "none"
        THEN /\ CanStart(m1)
             /\ SetMain(startWatchingFolder(m1, fs, "none"))
        ELSE SetMain(m0)
     /\ UNCHANGED <<fs, stores, disk, now, rst, mig, edits, rd,
       watchedFolders>>

\* ======================================================== environment
\* the user saves or deletes a file of the folder
Edit(f, c) ==
  /\ edits < MaxEdits
  /\ disk[f] # c
  /\ disk' = [disk EXCEPT ![f] = c]
  /\ edits' = edits + 1
  /\ UNCHANGED <<fs, stores, now, folder, gitServices, fileWatchers, fw, rst,
                 mig, rd, watchedFolders>>

\* a second passes
Tick ==
  /\ now < MaxClock
  /\ now' = now + 1
  /\ UNCHANGED <<fs, stores, disk, folder, gitServices, fileWatchers, fw, rst,
                 mig, edits, rd, watchedFolders>>

\* ====================================================== specifications
Strategies == {"on-save", "periodic"}
Folder(c, a, st) ==
  [customGitPath |-> c, isActive |-> a, commitStrategy |-> st,
   periodicInterval |-> 5, watchSubfolders |-> TRUE]

\* a commit chain of one initial commit recording the tree t
OneCommit(sid, t) ==
  [commits |-> <<[hash |-> <<sid, 1>>, time |-> 1,
                  msg |-> Msg("InitialLV", <<>>, NoRef), tree |-> t]>>,
   index |-> t]
Tree(a, b) == [f \in Files |-> IF f = "a" THEN a ELSE IF f = "b" THEN b
                                ELSE GitIgnoreText]

\* The folder is watched, its store in the default location holds the
\* initial commit of the working tree.
Init ==
  /\ \E st \in Strategies, b \in {Absent, "c1"} :
       /\ folder = Folder(NoPath, TRUE, st)
       /\ disk = Tree("c1", b)
       /\ stores = [s \in StoreIds |->
                      IF s = 1 THEN OneCommit(1, disk) ELSE EmptyStore]
       /\ fw = [w \in Wids |->
                  IF w = "w1" THEN Attach([InitW EXCEPT !.strategy = st])
                  ELSE InitW]
  /\ fs = [p \in Paths |-> IF p = DefaultGitPath THEN FsDir(1) ELSE FsNone]
  /\ now = 1
  /\ gitServices = Gs(NoPath)
  /\ fileWatchers = "w1"
  /\ rst = InitRst
  /\ mig = InitMig
  /\ edits = 0
  /\ rd = InitRd
  /\ watchedFolders = <<>>

SchedulerOn(w, paths) ==
  \/ \E p \in paths : HandleFileChange(w, p)
  \/ DebounceFire(w)
  \/ PeriodicTick(w)
  \/ CStatus0(w)
  \/ CLog(w)
  \/ CAdd(w)
  \/ CStatus(w)
  \/ CCommit(w)
Scheduler(w) == SchedulerOn(w, WatchedPaths)

Restore ==
  \/ \E f \in UserFiles, ref \in StoreIds \X (1..MaxCommits) : RestoreBegin(f, ref)
  \/ RShow
  \/ RAdd
  \/ RCommit

Next ==
  \/ \E w \in Wids : Scheduler(w)
  \/ \E f \in UserFiles, c \in Contents \cup {Absent} : Edit(f, c)

Spec == Init /\ [][Next]_vars

\* ---------------------------------------------------------------- C1
\* C1: a path leaves pendingChanges only in the step that starts a commit
\* attempt, and that step hands the whole pending set to GitService.commit
\* and empties it; while a commit is in flight its file list does not
\* change, so a path added meanwhile stays pending.
C1_PendingDurable ==
  [][\A w \in Wids :
       /\ (fw'[w].st # "unused" /\ ~(Range(fw[w].pending) \subseteq Range(fw'[w].pending)))
            => /\ ~fw[w].isCommitting /\ fw'[w].isCommitting
               /\ fw'[w].files = fw[w].pending
               /\ fw'[w].pending = <<>>
               /\ fw'[w].pc \in CommitPcs \cup InitPcs
       /\ (fw[w].isCommitting /\ fw'[w].isCommitting)
            => fw'[w].files = fw[w].files]_vars

\* a path was added while a commit is in flight
C1_Witness ==
  \E w \in Wids : /\ fw[w].isCommitting
                  /\ fw[w].pending # <<>>
                  /\ fw[w].files # <<>>

\* ---------------------------------------------------------------- C2
NoDuplicates(s) == \A i, j \in 1..Len(s) : i # j => s[i] # s[j]

\* C2: under on-save at most one debounce timer is armed, a commit's file
\* list names each path once, and a pending path always has the debounce
\* timer armed that will hand it to GitService.commit.
C2_DebounceCoalesces ==
  \A w \in Wids :
    (fw[w].st = "watching" /\ fw[w].strategy = "on-save")
      => /\ Cardinality(fw[w].armed) <= 1
         /\ NoDuplicates(fw[w].files)
         /\ fw[w].pending # <<>> => fw[w].armed # {}

\* ========================================= restore beside the scheduler
\* a store whose commits record the successive contents h of file "a"
Chain(sid, h) ==
  [commits |-> [i \in 1..Len(h) |->
                  [hash |-> <<sid, i>>, time |-> 1,
                   msg |-> IF i = 1 THEN Msg("InitialLV", <<>>, NoRef)
                           ELSE Msg("Auto", <<"a">>, NoRef),
                   tree |-> Tree(h[i], Absent)]],
   index |-> Tree(h[Len(h)], Absent)]

Histories == {<<"c1">>, <<"c1", "c2">>, <<"c1", Absent>>}

\* The folder is watched under either strategy; earlier commits recorded
\* file "a", which the user may have edited or deleted since.
InitRestore ==
  /\ \E h \in Histories, d \in Contents \cup {Absent} :
       /\ disk = Tree(d, Absent)
       /\ stores = [s \in StoreIds |->
                      IF s = 1 THEN Chain(1, h) ELSE EmptyStore]
  /\ \E st \in Strategies :
       /\ folder = Folder(NoPath, TRUE, st)
       /\ fw = [w \in Wids |->
                  IF w = "w1" THEN Attach([InitW EXCEPT !.strategy = st])
                  ELSE InitW]
  /\ fs = [p \in Paths |-> IF p = DefaultGitPath THEN FsDir(1) ELSE FsNone]
  /\ now = 1
  /\ gitServices = Gs(NoPath)
  /\ fileWatchers = "w1"
  /\ rst = InitRst
  /\ mig = InitMig
  /\ edits = 0
  /\ rd = InitRd
  /\ watchedFolders = <<>>

NextRestore ==
  \/ \E w \in Wids : Scheduler(w)
  \/ Restore

SpecRestore == InitRestore /\ [][NextRestore]_vars

\* ---------------------------------------------------------------- C3
CommitInProgress(w) == fw[w].pc \in CommitPcs
RestoreInProgress == rst.pc \in {"r_add", "r_commit"}

\* C3: at most one commit operation on the folder's store is in progress:
\* the commits of its schedulers and a restoreFile that has written the
\* file and is at git add or git commit never overlap.
C3_OneCommitAtATime ==
  Cardinality({w \in Wids : CommitInProgress(w)})
    + (IF RestoreInProgress THEN 1 ELSE 0) <= 1

\* ---------------------------------------------------------------- C10
\* C10: when restoreFile(path, refK) returns, for a refK that records
\* content c of the path, the history is one commit longer than at the
\* call, the new commit carries the 'Restored' message, and
\* getFileContentSafe(latest, path) is c.
C10_RestoreRoundTrip ==
  [][(rst.pc = "r_commit" /\ rst'.pc = "done" /\ rst'.result = "ok"
        /\ rst.c # Absent)
       => LET st == stores'[Resolve(fs')] IN
          /\ Len(st.commits) = rst.preLen + 1
          /\ Last(st.commits).msg.kind = "Restored"
          /\ getFileContentSafeOk(st, Last(st.commits).hash, rst.path)
          /\ getFileContentSafe(st, Last(st.commits).hash, rst.path) = rst.c]_vars

\* ============================================== migrate-git-repository
\* lines 734-735: newGitPath === defaultGitPath ? undefined : newGitPath
NewCustomGitPath(target) == IF target = DefaultGitPath THEN NoPath ELSE target

\* lines 739-754 (and 611-612): the folder's customGitPath is rewritten and
\* the cached GitService replaced by one for the new location
ConfigMoved(m, target) ==
  [m EXCEPT !.folder = [m.folder EXCEPT !.customGitPath = NewCustomGitPath(target)],
            !.gitServices = Gs(NewCustomGitPath(target))]

\* the handler awaits startWatchingFolder and then returns `result`
MigStart(g, m, result) ==
  IF m.suspended
  THEN [g EXCEPT !.pc = "await_start", !.after = result]
  ELSE [g EXCEPT !.pc = "done", !.result = result]

\* lines 633-672: date of the last commit at location p (0: none readable);
\* the default location is read by git log in the working directory, any
\* other by git --git-dir p log
LastCommitAt(fsv, sts, p) ==
  LET s == IF p = DefaultGitPath THEN Resolve(fsv) ELSE ResolveDir(fsv, p) IN
  IF s = 0 \/ sts[s].commits = <<>> THEN 0 ELSE Last(sts[s].commits).time

shouldReplaceTargetOnTie(oldLast, newLast) ==
  IF newLast = 0 THEN TRUE
  ELSE IF oldLast = 0 THEN FALSE
  ELSE oldLast >= newLast
shouldReplaceTargetReversed(oldLast, newLast) ==
  IF newLast = 0 THEN TRUE
  ELSE IF oldLast = 0 THEN FALSE
  ELSE oldLast < newLast
\* lines 678-696
shouldReplaceTarget(oldLast, newLast) ==
  IF newLast = 0 THEN TRUE
  ELSE IF oldLast = 0 THEN FALSE
  ELSE oldLast > newLast

\* the call and the record kept of the state it found
MigCall(target) ==
  [InitMig EXCEPT !.target = target, !.old = EffectivePath(folder),
                  !.preFs = fs, !.preCustom = folder.customGitPath,
                  !.preCommits = [s \in StoreIds |-> stores[s].commits],
                  !.preList = listCommits(fs, stores),
                  !.prevTarget = mig.target, !.prevResult = mig.result]

\* lines 577-599: the scheduler is stopped; old = new restarts it
MigSame(target) ==
  LET m1 == stopWatchingFolder(MainState)
      m2 == startWatchingFolder(m1, fs, "mig")
  IN /\ mig.pc \in {"idle", "done"}
     /\ EffectivePath(folder) = target
     /\ CanStart(m1)
     /\ SetMain(m2)
     /\ mig' = MigStart(MigCall(target), m2, "ok")
     /\ UNCHANGED <<fs, stores, disk, now, rst, edits, rd, watchedFolders>>

\* lines 602-619: nothing at the old location
MigSourceMissing(target) ==
  LET m1 == stopWatchingFolder(MainState)
      m2 == IF existsSync(fs, target) THEN ConfigMoved(m1, target) ELSE m1
      m3 == startWatchingFolder(m2, fs, "mig")
  IN /\ mig.pc \in {"idle", "done"}
     /\ EffectivePath(folder) # target
     /\ ~existsSync(fs, EffectivePath(folder))
     /\ CanStart(m2)
     /\ SetMain(m3)
     /\ mig' = MigStart(MigCall(target), m3,
                        IF existsSync(fs, target) THEN "ok" ELSE "fail_missing")
     /\ UNCHANGED <<fs, stores, disk, now, rst, edits, rd, watchedFolders>>

\* lines 628-651: both locations exist; the first git log is awaited
MigConflict(target) ==
  /\ mig.pc \in {"idle", "done"}
  /\ EffectivePath(folder) # target
  /\ existsSync(fs, EffectivePath(folder))
  /\ existsSync(fs, target)
  /\ SetMain(stopWatchingFolder(MainState))
  /\ mig' = [MigCall(target) EXCEPT !.pc = "cmp_old"]
  /\ UNCHANGED <<fs, stores, disk, now, rst, edits, rd, watchedFolders>>

\* lines 726-763: the target is free: rename, rewrite the configuration,
\* then await getCommits(1); a rename that throws (moved = FALSE, e.g.
\* EXDEV between volumes) ends the handler in its outer catch
MigMove(target, moved) ==
  LET m1 == stopWatchingFolder(MainState) IN
  /\ mig.pc \in {"idle", "done"}
  /\ EffectivePath(folder) # target
  /\ existsSync(fs, EffectivePath(folder))
  /\ ~existsSync(fs, target)
  /\ IF moved
     THEN /\ fs' = renameSync(fs, EffectivePath(folder), target)
          /\ SetMain(ConfigMoved(m1, target))
          /\ mig' = [MigCall(target) EXCEPT !.pc = "verify", !.renames = 1]
     ELSE /\ fs' = fs
          /\ SetMain(m1)
          /\ mig' = [MigCall(target) EXCEPT !.pc = "done", !.result = "fail_throw"]
  /\ UNCHANGED <<stores, disk, now, rst, edits, rd, watchedFolders>>

\* lines 633-651: the source's last commit date has been read
MigCmpOld ==
  /\ mig.pc = "cmp_old"
  /\ mig' = [mig EXCEPT !.pc = "cmp_new",
                        !.oldLast = LastCommitAt(fs, stores, mig.old)]
  /\ UNCHANGED <<fs, stores, disk, now, folder, gitServices, fileWatchers,
                 fw, rst, edits, rd, watchedFolders>>

\* lines 698-720: the renames of the conflict case; thrown = 0: all done,
\* 1: the first rename threw, 2: the second did
MergeThrown(fsv, g, replace, moved) ==
  IF replace
  THEN IF ~RenameOk(fsv, g.target, BackupPath(g.target, now)) THEN 1
       ELSE IF ~moved \/ ~RenameOk(renameSync(fsv, g.target, BackupPath(g.target, now)),
                                  g.old, g.target) THEN 2
       ELSE 0
  ELSE IF ~RenameOk(fsv, g.old, BackupPath(g.old, now)) THEN 1 ELSE 0
MergeFs(fsv, g, replace, thrown) ==
  IF replace
  THEN IF thrown = 1 THEN fsv
       ELSE IF thrown = 2 THEN renameSync(fsv, g.target, BackupPath(g.target, now))
       ELSE renameSync(renameSync(fsv, g.target, BackupPath(g.target, now)),
                       g.old, g.target)
  ELSE IF thrown = 1 THEN fsv
       ELSE renameSync(fsv, g.old, BackupPath(g.old, now))
MergeRenames(replace, thrown) ==
  IF replace THEN (IF thrown = 1 THEN 0 ELSE IF thrown = 2 THEN 1 ELSE 2)
  ELSE (IF thrown = 1 THEN 0 ELSE 1)

\* lines 654-763: the target's date has been read; the decision, the
\* renames, then either the configuration is rewritten and getCommits(1)
\* awaited, or the inner catch restarts the scheduler and reports a failure
MigCmpNew(moved) ==
  LET newLast == LastCommitAt(fs, stores, mig.target)
      replace == shouldReplaceTarget(mig.oldLast, newLast)
      thrown == MergeThrown(fs, mig, replace, moved)
      g == [mig EXCEPT !.newLast = newLast, !.replaced = replace,
                       !.renames = MergeRenames(replace, thrown)]
      m2 == startWatchingFolder(MainState, MergeFs(fs, mig, replace, thrown), "mig")
  IN /\ mig.pc = "cmp_new"
     /\ fs' = MergeFs(fs, mig, replace, thrown)
     /\ IF thrown = 0
        THEN /\ SetMain(ConfigMoved(MainState, mig.target))
             /\ mig' = [g EXCEPT !.pc = "verify"]
        ELSE /\ CanStart(MainState)
             /\ SetMain(m2)
             /\ mig' = MigStart(g, m2, "fail_merge")
     /\ UNCHANGED <<stores, disk, now, rst, edits, rd, watchedFolders>>

MigVerifyRollsBack ==
  LET m2 == startWatchingFolder(MainState, fs, "mig") IN
  /\ mig.pc = "verify"
  /\ IF ~listCommits(fs, stores).ok
     THEN /\ mig' = [mig EXCEPT !.pc = "done", !.result = "fail_verify"]
          /\ folder' = [folder EXCEPT !.customGitPath = mig.preCustom]
          /\ UNCHANGED <<gitServices, fileWatchers, fw>>
     ELSE /\ CanStart(MainState)
          /\ SetMain(m2)
          /\ mig' = MigStart(mig, m2, "ok")
  /\ UNCHANGED <<fs, stores, disk, now, rst, edits, rd, watchedFolders>>

\* lines 757-769: getCommits(1) on the new GitService; when it throws the
\* handler returns without restarting the scheduler
MigVerify ==
  LET m2 == startWatchingFolder(MainState, fs, "mig") IN
  /\ mig.pc = "verify"
  /\ IF ~listCommits(fs, stores).ok
     THEN /\ mig' = [mig EXCEPT !.pc = "done", !.result = "fail_verify"]
          /\ UNCHANGED <<folder, gitServices, fileWatchers, fw>>
     ELSE /\ CanStart(MainState)
          /\ SetMain(m2)
          /\ mig' = MigStart(mig, m2, "ok")
  /\ UNCHANGED <<fs, stores, disk, now, rst, edits, rd, watchedFolders>>

Migrate(target) ==
  \/ MigSame(target)
  \/ MigSourceMissing(target)
  \/ MigConflict(target)
  \/ \E moved \in BOOLEAN : MigMove(target, moved)
  \/ MigCmpOld
  \/ \E moved \in BOOLEAN : MigCmpNew(moved)
  \/ MigVerify

InitSteps(w) ==
  \/ IInit(w)
  \/ IConfig(w)
  \/ IStatus(w)
  \/ IAdd(w)
  \/ IStatus2(w)
  \/ ICommit(w)

\* ================================================ relocations in a row
\* a store with no commit, or with one commit made at time t
StoreAt(sid, t) ==
  IF t = 0 THEN EmptyStore
  ELSE [commits |-> <<[hash |-> <<sid, 1>>, time |-> t,
                       msg |-> Msg("InitialLV", <<>>, NoRef),
                       tree |-> Tree("c1", Absent)]>>,
        index |-> Tree("c1", Absent)]

\* The directories found on disk when relocation is asked for: the working
\* folder holds a store, a link to the store at X, or nothing; X and Y may
\* hold stores of their own (earlier installations, which the reconnect
\* dialog looks for); the folder's customGitPath is unset or X.  No
\* scheduler runs.
InitReloc ==
  /\ \E wk \in {"none", "dir", "file"}, x \in BOOLEAN, y \in BOOLEAN,
        t \in [StoreIds -> 0..2] :
       /\ wk = "file" => x
       /\ LET sw == IF wk = "dir" THEN 1 ELSE 0
              sx == IF x THEN sw + 1 ELSE 0
              sy == IF y THEN (IF x THEN sx ELSE sw) + 1 ELSE 0
          IN /\ fs = [p \in Paths |->
                        IF p = DefaultGitPath
                        THEN (IF wk = "dir" THEN FsDir(sw)
                              ELSE IF wk = "file" THEN FsFile(P("X")) ELSE FsNone)
                        ELSE IF p = P("X") /\ x THEN FsDir(sx)
                        ELSE IF p = P("Y") /\ y THEN FsDir(sy)
                        ELSE FsNone]
             /\ stores = [s \in StoreIds |->
                            IF s \in {sw, sx, sy} THEN StoreAt(s, t[s])
                            ELSE EmptyStore]
             /\ \A s \in StoreIds : s \notin {sw, sx, sy} => t[s] = 0
  /\ \E c \in {NoPath, P("X")} : folder = Folder(c, FALSE, "on-save")
  /\ disk = Tree("c1", Absent)
  /\ now = 2
  /\ gitServices = NoGs
  /\ fileWatchers = "none"
  /\ fw = [w \in Wids |-> InitW]
  /\ rst = InitRst
  /\ mig = InitMig
  /\ edits = 0
  /\ rd = InitRd
  /\ watchedFolders = <<>>

Targets == {P("Wgit"), P("X"), P("Y")}

NextReloc ==
  \/ \E target \in Targets : Migrate(target)
  \/ \E w \in Wids : InitSteps(w)
  \/ Tick

SpecReloc == InitReloc /\ [][NextReloc]_vars

\* ---------------------------------------------------------------- C5
BackupPaths == {p \in Paths : p[2] # 0}
PathsOfStore(fsv, sid) == {q \in Paths : fsv[q].k = "dir" /\ fsv[q].s = sid}

\* C5: when migrate-git-repository has returned, however it ended, every
\* store directory that was at the old or the new location at the call is
\* at exactly one path, which is its original path, the new location or a
\* backup path, and holds the commits it held.
C5_RelocationKeepsStores ==
  mig.pc = "done" =>
    \A p \in {mig.old, mig.target} :
      mig.preFs[p].k = "dir" =>
        LET sid == mig.preFs[p].s IN
        /\ Cardinality(PathsOfStore(fs, sid)) = 1
        /\ PathsOfStore(fs, sid) \subseteq {p, mig.target} \cup BackupPaths
        /\ stores[sid].commits = mig.preCommits[sid]

\* a relocation ended after its first rename, the second having thrown
C5_Witness ==
  /\ mig.pc = "done"
  /\ mig.result = "fail_merge"
  /\ mig.renames = 1
  /\ mig.preFs[mig.target].k = "dir"

\* ---------------------------------------------------------------- C7
\* C7: when relocate returns success, listCommits returns the hashes, in
\* the order, that it returned immediately before the call.
C7_RelocationPreservesHistory ==
  (mig.pc = "done" /\ mig.result = "ok" /\ mig.preList.ok)
    => listCommits(fs, stores) = mig.preList

\* ---------------------------------------------------------------- C8
PreLast(p) ==
  IF mig.preFs[p].k # "dir" \/ mig.preCommits[mig.preFs[p].s] = <<>> THEN 0
  ELSE Last(mig.preCommits[mig.preFs[p].s]).time
SourceNewer ==
  /\ mig.old # mig.target
  /\ mig.preFs[mig.old].k = "dir"
  /\ mig.preFs[mig.target].k = "dir"
  /\ PreLast(mig.target) # 0
  /\ PreLast(mig.old) > PreLast(mig.target)

\* C8: a relocation that found stores at both locations, the source's last
\* commit strictly later than the destination's, and whose renames did not
\* throw, leaves the source store at the new location, the destination
\* store at a backup path of the new location, and nothing at the old one.
C8_SourceNewerReplaces ==
  (mig.pc = "done" /\ SourceNewer /\ mig.result # "fail_merge")
    => /\ fs[mig.target] = mig.preFs[mig.old]
       /\ \E t \in 1..MaxClock :
            fs[BackupPath(mig.target, t)] = mig.preFs[mig.target]
       /\ fs[mig.old].k = "none"
       /\ stores[fs[mig.target].s].commits = mig.preCommits[mig.preFs[mig.old].s]

C8_Witness ==
  /\ mig.pc = "done"
  /\ SourceNewer
  /\ mig.renames = 2

\* ---------------------------------------------------------------- C9
\* C9: a relocate(id, X) that follows a successful relocate(id, X) renames
\* nothing, leaves the configuration as it was, returns success, and leaves
\* one store at X, with the commits it had after the first call.
C9_RelocationIdempotent ==
  (mig.pc = "done" /\ mig.prevResult = "ok" /\ mig.prevTarget = mig.target)
    => /\ mig.renames = 0
       /\ folder.customGitPath = mig.preCustom
       /\ mig.result = "ok"
       /\ fs = mig.preFs
       /\ ResolveDir(fs, mig.target) # 0
       /\ stores[ResolveDir(fs, mig.target)].commits
            = mig.preCommits[ResolveDir(fs, mig.target)]

\* ================================= starts, stops and relocations together
\* The folder has just been added: nothing is stored for it yet and no
\* scheduler runs.
InitMain ==
  /\ fs = [p \in Paths |-> FsNone]
  /\ stores = [s \in StoreIds |-> EmptyStore]
  /\ disk = [f \in Files |-> IF f = "a" THEN "c1" ELSE Absent]
  /\ now = 1
  /\ folder = Folder(NoPath, TRUE, "on-save")
  /\ gitServices = NoGs
  /\ fileWatchers = "none"
  /\ fw = [w \in Wids |-> InitW]
  /\ rst = InitRst
  /\ mig = InitMig
  /\ edits = 0
  /\ rd = InitRd
  /\ watchedFolders = <<>>

MainTargets == {P("Wgit"), P("X")}

NextMain ==
  \/ StartWatching
  \/ StopWatching
  \/ \E s \in Strategies : UpdateFolder(s)
  \/ \E target \in MainTargets : Migrate(target)
  \/ \E w \in Wids : InitSteps(w)

SpecMain == InitMain /\ [][NextMain]_vars

\* ---------------------------------------------------------------- C4
Active(w) ==
  fw[w].st = "watching" \/ fw[w].armed # {} \/ fw[w].periodicTimer

\* C4: at most one FileWatcher of the folder has an attached observer or an
\* armed timer.
C4_OneActiveScheduler == Cardinality({w \in Wids : Active(w)}) <= 1

\* ---------------------------------------------------------------- C6
Relocating == mig.pc \in {"cmp_old", "cmp_new", "verify"}

\* C6: while migrate-git-repository is between stopping the scheduler and
\* restarting it, no commit of the folder is in flight and no FileWatcher
\* of the folder is active or being started.
C6_NoCommitDuringRelocation ==
  Relocating => \A w \in Wids : fw[w].pc = "idle" /\ ~Active(w)

\* -------------------------------------- relocation beside the scheduler
\* The folder is watched, its store in the default location holds the
\* initial commit; the user has saved new content of file "a" since.
InitMigCommit ==
  /\ \E st \in Strategies :
       /\ folder = Folder(NoPath, TRUE, st)
       /\ disk = Tree("c2", Absent)
       /\ fw = [w \in Wids |->
                  IF w = "w1" THEN Attach([InitW EXCEPT !.strategy = st])
                  ELSE InitW]
  /\ stores = [s \in StoreIds |->
                 IF s = 1 THEN OneCommit(1, Tree("c1", Absent)) ELSE EmptyStore]
  /\ fs = [p \in Paths |-> IF p = DefaultGitPath THEN FsDir(1) ELSE FsNone]
  /\ now = 1
  /\ gitServices = Gs(NoPath)
  /\ fileWatchers = "w1"
  /\ rst = InitRst
  /\ mig = InitMig
  /\ edits = 0
  /\ rd = InitRd
  /\ watchedFolders = <<>>

\* From InitMigCommit the relocation handler only meets its same-path and
\* its free-target cases, and initialize() always finds its directory.
NextMigCommit ==
  \/ \E w \in Wids : SchedulerOn(w, {"a"})
  \/ \E target \in MainTargets : MigSame(target)
  \/ \E target \in MainTargets, moved \in BOOLEAN : MigMove(target, moved)
  \/ MigVerify

SpecMigCommit == InitMigCommit /\ [][NextMigCommit]_vars


\* ================================================== reading a history
MaxPrefix == 3
MaxBeyond == 1
EmptyText == ""

\* newCommit || 'current' (line 404)
RefName(new) == [current |-> new = NoRef, hash |-> new]

\* GitService.getDiff (lines 380-411); new = NoRef: newCommit omitted
getDiffOk(st, f, old, new) ==
  /\ getFileContentSafeOk(st, old, f)
  /\ new # NoRef => getFileContentSafeOk(st, new, f)
getDiff(st, dsk, f, old, new) ==
  [oldContent |-> getFileContentSafe(st, old, f),
   newContent |-> IF new # NoRef THEN getFileContentSafe(st, new, f)
                  ELSE IF dsk[f] # Absent THEN dsk[f] ELSE EmptyText,
   newCommit |-> RefName(new)]

Answer(op, f, old, new, ok, c, d) ==
  [op |-> op, path |-> f, ref |-> old, new |-> new, ok |-> ok,
   content |-> c, newContent |-> d.newContent, newCommit |-> d.newCommit]
NoDiff == [newContent |-> EmptyText, newCommit |-> RefName(NoRef)]

\* ipcMain.handle('get-file-content'); no writer runs beside the reads of
\* this section, so the handler's git commands are taken as one step
GetFileContent(h, f) ==
  LET s == Resolve(fs)
      ok == s # 0 /\ getFileContentOk(stores[s], h, f)
  IN /\ rd' = Answer("get-file-content", f, h, NoRef, ok,
                     IF ok THEN getFileContent(stores[s], h, f) ELSE Absent,
                     NoDiff)
     /\ gitServices' = getOrCreateGitService(MainState)
     /\ UNCHANGED <<fs, stores, disk, now, folder, fileWatchers, fw, rst, mig,
                    edits, watchedFolders>>

\* ipcMain.handle('get-diff')
GetDiff(f, old, new) ==
  LET s == Resolve(fs)
      ok == s # 0 /\ getDiffOk(stores[s], f, old, new)
  IN /\ rd' = IF ok
              THEN Answer("get-diff", f, old, new, TRUE,
                          getFileContentSafe(stores[s], old, f),
                          getDiff(stores[s], disk, f, old, new))
              ELSE Answer("get-diff", f, old, new, FALSE, Absent, NoDiff)
     /\ gitServices' = getOrCreateGitService(MainState)
     /\ UNCHANGED <<fs, stores, disk, now, folder, fileWatchers, fw, rst, mig,
                    edits, watchedFolders>>

\* The histories read: the first commits record the successive contents h
\* of file "a"; a commit that leaves "a" as it was changes file "b"; `tail`
\* further commits change only "b".
Extend(h, tail) ==
  [i \in 1..(Len(h) + tail) |-> IF i <= Len(h) THEN h[i] ELSE h[Len(h)]]
Flips(h, i) ==
  Cardinality({j \in 1..i : h[j] = (IF j = 1 THEN Absent ELSE h[j - 1])})
TreeOf(h, i) ==
  Tree(h[i], IF Flips(h, i) = 0 THEN Absent
             ELSE IF Flips(h, i) % 2 = 1 THEN "c1" ELSE "c2")
LongChain(sid, h) ==
  [commits |-> [i \in 1..Len(h) |->
                  [hash |-> <<sid, i>>, time |-> 1,
                   msg |-> IF i = 1 THEN Msg("InitialLV", <<>>, NoRef)
                           ELSE Msg("Auto", <<>>, NoRef),
                   tree |-> TreeOf(h, i)]],
   index |-> TreeOf(h, Len(h))]
Prefixes == UNION {[1..n -> Contents \cup {Absent}] : n \in 1..MaxPrefix}
Tails == {0} \cup ((LookupWindow - 2)..(LookupWindow - 1 + MaxBeyond))
ReadRefs == {<<1, i>> : i \in 1..(MaxPrefix + 1)}

InitRead ==
  /\ \E h \in Prefixes, tail \in Tails, d \in Contents \cup {Absent} :
       /\ stores = [s \in StoreIds |->
                      IF s = 1 THEN LongChain(1, Extend(h, tail))
                      ELSE EmptyStore]
       /\ disk = [TreeOf(Extend(h, tail), Len(h) + tail) EXCEPT !["a"] = d]
  /\ fs = [p \in Paths |-> IF p = DefaultGitPath THEN FsDir(1) ELSE FsNone]
  /\ now = 1
  /\ folder = Folder(NoPath, FALSE, "on-save")
  /\ gitServices = NoGs
  /\ fileWatchers = "none"
  /\ fw = [w \in Wids |-> InitW]
  /\ rst = InitRst
  /\ mig = InitMig
  /\ edits = 0
  /\ rd = InitRd
  /\ watchedFolders = <<>>

NextRead ==
  \/ \E h \in ReadRefs, f \in UserFiles : GetFileContent(h, f)
  \/ \E f \in UserFiles, old \in ReadRefs, cur \in BOOLEAN :
       GetDiff(f, old, IF cur THEN NoRef ELSE Last(stores[1].commits).hash)

SpecRead == InitRead /\ [][NextRead]_vars

\* the path f was present before the commit at position c and is recorded
\* as deleted by it; before that it was created by one commit and modified
\* by a later one
DeletedAt(st, f, c) ==
  /\ c \in 2..Len(st.commits)
  /\ TreeAt(st, c)[f] = Absent
  /\ TreeAt(st, c - 1)[f] # Absent
CreatedModifiedDeleted(st, f, c) ==
  /\ DeletedAt(st, f, c)
  /\ \E a \in 1..(c - 2), b \in 2..(c - 1) :
       /\ a < b
       /\ TreeAt(st, a - 1)[f] = Absent
       /\ \A k \in a..(c - 1) : TreeAt(st, k)[f] # Absent
       /\ TreeAt(st, b)[f] # TreeAt(st, b - 1)[f]
       /\ \A k \in b..(c - 1) : TreeAt(st, k)[f] = TreeAt(st, b)[f]
Asked(op) == rd.op = op /\ rd.ref \in Hashes(stores[1])
AskedPos == PosOf(stores[1], rd.ref)

\* ---------------------------------------------------------------- C11
\* C11: for a file created in one commit, modified in a later one and
\* deleted in commit C, the resilient read at C (the old side of getDiff)
\* answers with the content recorded before the deletion, and the direct
\* read getFileContent at C fails.
C11_ResilientReadAcrossDeletion ==
  /\ (Asked("get-diff") /\ rd.new = NoRef
        /\ CreatedModifiedDeleted(stores[1], rd.path, AskedPos))
       => /\ rd.ok
          /\ rd.content = TreeAt(stores[1], AskedPos - 1)[rd.path]
  /\ (Asked("get-file-content")
        /\ CreatedModifiedDeleted(stores[1], rd.path, AskedPos))
       => ~rd.ok

\* ---------------------------------------------------------------- C18
\* C18: getDiff without newCommit answers with the live file's content, or
\* the empty string when the path is not on disk, and names the new side
\* 'current'; for a file deleted in commit C and absent from disk,
\* getDiff(path, C) succeeds with the last content before the deletion as
\* oldContent and the empty string as newContent.
C18_DiffAgainstCurrent ==
  /\ (rd.op = "get-diff" /\ rd.new = NoRef /\ rd.ok)
       => /\ rd.newContent = (IF disk[rd.path] # Absent THEN disk[rd.path]
                              ELSE EmptyText)
          /\ rd.newCommit.current
  /\ (Asked("get-diff") /\ rd.new = NoRef /\ disk[rd.path] = Absent
        /\ DeletedAt(stores[1], rd.path, AskedPos))
       => /\ rd.ok
          /\ rd.content = TreeAt(stores[1], AskedPos - 1)[rd.path]
          /\ rd.newContent = EmptyText

\* ================================================== the first commit
\* The folder is watched with its store in the default location.  The
\* store holds no commit yet (a directory git init made and nothing was
\* committed to), or <workingDir>/.git has been removed since the scheduler
\* started; files "a" and "b" are in the working tree.
InitFirst ==
  /\ \E st \in Strategies, there \in BOOLEAN :
       /\ folder = Folder(NoPath, TRUE, st)
       /\ fw = [w \in Wids |->
                  IF w = "w1" THEN Attach([InitW EXCEPT !.strategy = st])
                  ELSE InitW]
       /\ fs = [p \in Paths |->
                  IF p = DefaultGitPath /\ there THEN FsDir(1) ELSE FsNone]
       /\ disk = [Tree("c1", "c1") EXCEPT ![GitIgnore] = Absent]
  /\ stores = [s \in StoreIds |-> EmptyStore]
  /\ now = 1
  /\ gitServices = Gs(NoPath)
  /\ fileWatchers = "w1"
  /\ rst = InitRst
  /\ mig = InitMig
  /\ edits = 0
  /\ rd = InitRd
  /\ watchedFolders = <<>>

NextFirst ==
  \/ \E w \in Wids : Scheduler(w)
  \/ \E w \in Wids : InitSteps(w)
  \/ \E f \in UserFiles, c \in Contents \cup {Absent} : Edit(f, c)

SpecFirst == InitFirst /\ [][NextFirst]_vars

\* the step is a git command of w's GitService.commit (not of initialize)
CommitStep(w) == fw[w].pc \in CommitPcs /\ fw'[w].pc # fw[w].pc
ChainOf(sts, fsv) == sts[Resolve(fsv)].commits

\* ---------------------------------------------------------------- C12
\* C12: in a GitService.commit on a store whose chain is empty, the staging
\* step stages the whole working tree, not only changedPaths, and the
\* commit the call creates records that staged tree under the 'Initial
\* commit' label.
C12_FirstCommitTakesAll ==
  [][\A w \in Wids :
       (CommitStep(w) /\ Resolve(fs) # 0 /\ ChainOf(stores, fs) = <<>>)
         => /\ fw[w].pc = "c_add" => stores'[Resolve(fs)].index = disk
            /\ ChainOf(stores', fs') # <<>>
                 => /\ Len(ChainOf(stores', fs')) = 1
                    /\ ChainOf(stores', fs')[1].msg.kind = "Initial"
                    /\ ChainOf(stores', fs')[1].tree = stores[Resolve(fs)].index]_vars

\* a first commit asked for file "a" alone has recorded file "b" as well
C12_Witness ==
  /\ Resolve(fs) # 0
  /\ Len(ChainOf(stores, fs)) = 1
  /\ ChainOf(stores, fs)[1].msg.kind = "Initial"
  /\ ChainOf(stores, fs)[1].msg.files = <<"a">>
  /\ ChainOf(stores, fs)[1].tree["b"] # Absent

\* ---------------------------------------------------------------- C13
\* C13: a commit attempt of the scheduler returns a hash (and onCommit is
\* called) exactly when a git commit run during the attempt, the one of the
\* lazy initialize() included, has added a commit; otherwise it returns
\* empty and onCommit is not called.
C13_HashIffCommitCreated ==
  \A w \in Wids :
    (fw[w].st # "unused" /\ ~fw[w].isCommitting /\ fw[w].res \in {"created", "empty"})
      => (fw[w].res = "created" <=> fw[w].made)

\* ============================================= the scheduler, with time
\* Timers that are armed expire and awaited git commands return; nothing
\* obliges the user to touch a file again.
Fairness ==
  \A w \in Wids :
    /\ WF_vars(DebounceFire(w))
    /\ WF_vars(PeriodicTick(w))
    /\ WF_vars(CStatus0(w))
    /\ WF_vars(CLog(w))
    /\ WF_vars(CAdd(w))
    /\ WF_vars(CStatus(w))
    /\ WF_vars(CCommit(w))

SpecLive == Init /\ [][Next]_vars /\ Fairness

\* ---------------------------------------------------------------- C14
\* C14: paths that enter pendingChanges while a commit is in flight are
\* taken by a later commit attempt started by a timer alone, whatever the
\* moment the debounce timer expires and without a further event.
C14_PendingTakenByNextTrigger ==
  \A w \in Wids :
    (fw[w].isCommitting /\ fw[w].pending # <<>>) ~> (fw[w].pending = <<>>)

\* ---------------------------------------------------------------- C15
\* C15: one FileWatcher never has more than one GitService.commit call of
\* commitPendingChanges in flight, and a debounce timer that expires while
\* isCommitting is true starts nothing: the pending set, the file list of
\* the commit in flight and its position stay as they are.
C15_GuardedByIsCommitting ==
  [][\A w \in Wids :
       /\ fw'[w].calls <= 1
       /\ (fw[w].isCommitting /\ fw'[w].armed # fw[w].armed
             /\ fw'[w].armed \subseteq fw[w].armed)
            => /\ fw'[w].pending = fw[w].pending
               /\ fw'[w].files = fw[w].files
               /\ fw'[w].pc = fw[w].pc
               /\ fw'[w].isCommitting]_vars

\* a debounce timer has expired during a commit and was ignored
C15_Witness ==
  \E w \in Wids :
    /\ fw[w].strategy = "on-save" /\ fw[w].isCommitting /\ fw[w].calls = 1
    /\ fw[w].pending # <<>> /\ fw[w].armed = {}

\* ---------------------------------------------------------------- C16
\* the call found a store directory at both locations and the source store
\* had no commit
SourceEmpty ==
  /\ mig.old # mig.target
  /\ mig.preFs[mig.old].k = "dir"
  /\ mig.preFs[mig.target].k = "dir"
  /\ mig.preCommits[mig.preFs[mig.old].s] = <<>>

\* C16: a relocation that found stores at both locations, the source one
\* without commits, and whose rename did not throw, leaves the destination
\* store where it was and the source store at a backup path of the old
\* location, whatever the destination store holds.
C16_EmptySourceLoses ==
  (mig.pc = "done" /\ SourceEmpty /\ mig.result # "fail_merge")
    => /\ fs[mig.target] = mig.preFs[mig.target]
       /\ fs[mig.old].k = "none"
       /\ \E t \in 1..MaxClock :
            fs[BackupPath(mig.old, t)] = mig.preFs[mig.old]

\* ---------------------------------------------------------------- C17
\* the call found nothing at the old location
SourceMissing ==
  /\ mig.pc = "done"
  /\ mig.old # mig.target
  /\ mig.preFs[mig.old].k = "none"
Restarted == fileWatchers # "none" /\ fw[fileWatchers].st = "watching"

\* C17: a relocation that finds nothing at the old location fails with the
\* 'no repository found' error, configuration and filesystem as before,
\* when the new location is empty too; when something is at the new
\* location it renames nothing, points the configuration and a fresh
\* GitService at the new location and succeeds; either way the scheduler
\* is running again when the call returns.
C17_SourceMissing ==
  SourceMissing
    => /\ Restarted
       /\ mig.renames = 0
       /\ IF mig.preFs[mig.target].k = "none"
          THEN /\ mig.result = "fail_missing"
               /\ folder.customGitPath = mig.preCustom
               /\ fs = mig.preFs
          ELSE /\ mig.result = "ok"
               /\ folder.customGitPath = NewCustomGitPath(mig.target)
               /\ gitServices = Gs(NewCustomGitPath(mig.target))
               /\ fs = mig.preFs

\* ================================================== the first start
\* A folder has just been added: no store exists yet, at the default
\* location or at the custom one its configuration names; the working tree
\* is empty or holds file "a".
InitStart ==
  /\ \E c \in {NoPath, P("X")}, a \in {Absent, "c1"}, st \in Strategies :
       /\ folder = Folder(c, TRUE, st)
       /\ disk = [EmptyTree EXCEPT !["a"] = a]
  /\ fs = [p \in Paths |-> FsNone]
  /\ stores = [s \in StoreIds |-> EmptyStore]
  /\ now = 1
  /\ gitServices = NoGs
  /\ fileWatchers = "none"
  /\ fw = [w \in Wids |-> InitW]
  /\ rst = InitRst
  /\ mig = InitMig
  /\ edits = 0
  /\ rd = InitRd
  /\ watchedFolders = <<>>

NextStart ==
  \/ StartWatching
  \/ StopWatching
  \/ \E w \in Wids : InitSteps(w)

SpecStart == InitStart /\ [][NextStart]_vars

\* the step in which w's initialize(), called by start(), returns normally
InitializeDone(w) ==
  /\ fw[w].pc \in InitPcs
  /\ fw[w].caller = "start"
  /\ fw'[w].st = "watching"
NoUserFiles == \A f \in UserFiles : disk[f] = Absent

\* ---------------------------------------------------------------- C19
\* C19: when initialize() returns, the store and .gitignore exist; the
\* chain is empty if the working tree held no user file and holds exactly
\* one commit if it held one, for the default and for a custom location.
C19_InitialCommitOnlyWithFiles ==
  [][\A w \in Wids :
       InitializeDone(w)
         => /\ Resolve(fs') # 0
            /\ disk'[GitIgnore] # Absent
            /\ Len(ChainOf(stores', fs')) = (IF NoUserFiles THEN 0 ELSE 1)]_vars

\* ============================================ several watched folders
\* The storage locations the configuration gives to the folders of the
\* list.  A folder path is <<parent directory, base name>>; a storage
\* location is <<directory, base name, suffix>>.  Of the relocation handler
\* only its effect on the configuration is kept here: whether the target
\* exists or not, every path of the handler that does not throw ends with
\* configService.updateFolder(folderId, {customGitPath: newCustomGitPath}).
MaxFolders == 3
FolderPaths == {<<"a", "proj">>, <<"b", "proj">>, <<"a", "web">>}
CustomRoots == {"R1", "R2"}
NoRoot == "none"

\* path.basename(folderPath)
basename(p) == p[2]
\* `${customPath}/${folder.name}-git`
folderGitPath(customPath, name) == <<customPath, name, "-git">>
\* `${selectedFolder.path}/.git`
defaultGitPath(p) == <<p[1], p[2], ".git">>
\* GitService constructor: customGitPath || path.join(workingDir, '.git')
gitDirOf(f) ==
  IF f.customGitPath # NoPath THEN f.customGitPath ELSE defaultGitPath(f.path)

\* ConfigService.addFolder through ipcMain.handle('add-folder'): a new id,
\* name = basename(path), no customGitPath; the list is not searched for the
\* path or the name
AddFolder(p) ==
  /\ Len(watchedFolders) < MaxFolders
  /\ watchedFolders' = Append(watchedFolders,
        [id |-> Len(watchedFolders) + 1, path |-> p, name |-> basename(p),
         customGitPath |-> NoPath])
  /\ UNCHANGED <<fs, stores, disk, now, folder, gitServices, fileWatchers, fw,
                 rst, mig, edits, rd>>

\* handleReconnectNo: the folder just added gets the default custom root
ApplyDefaultLocation(i, r) ==
  /\ i = Len(watchedFolders)
  /\ watchedFolders[i].customGitPath = NoPath
  /\ watchedFolders' = [watchedFolders EXCEPT
        ![i].customGitPath = folderGitPath(r, watchedFolders[i].name)]
  /\ UNCHANGED <<fs, stores, disk, now, folder, gitServices, fileWatchers, fw,
                 rst, mig, edits, rd>>

\* the configuration after migrate-git-repository(folderId, newGitPath)
\* returned; ok = FALSE when it threw and left the configuration alone
migrateConfig(wf, i, newGitPath, ok) ==
  IF ok
  THEN [wf EXCEPT ![i].customGitPath =
          IF newGitPath = defaultGitPath(wf[i].path) THEN NoPath
          ELSE newGitPath]
  ELSE wf

\* Settings.handleSave: r is the custom root typed, NoRoot for the default
HandleSave(i, r, ok) ==
  /\ i \in DOMAIN watchedFolders
  /\ ~(r = NoRoot /\ watchedFolders[i].customGitPath = NoPath)
  /\ LET f == watchedFolders[i]
         targetGitPath == IF r # NoRoot THEN folderGitPath(r, f.name)
                          ELSE defaultGitPath(f.path)
     IN watchedFolders' = migrateConfig(watchedFolders, i, targetGitPath, ok)
  /\ UNCHANGED <<fs, stores, disk, now, folder, gitServices, fileWatchers, fw,
                 rst, mig, edits, rd>>

\* App.handleMigrateRepositories: one turn of its loop over folderIds
MigrateRepositories(i, r, ok) ==
  /\ i \in DOMAIN watchedFolders
  /\ watchedFolders' = migrateConfig(watchedFolders, i,
        folderGitPath(r, watchedFolders[i].name), ok)
  /\ UNCHANGED <<fs, stores, disk, now, folder, gitServices, fileWatchers, fw,
                 rst, mig, edits, rd>>

InitFolders ==
  /\ watchedFolders = <<>>
  /\ folder = Folder(NoPath, FALSE, "on-save")
  /\ disk = EmptyTree
  /\ fs = [p \in Paths |-> FsNone]
  /\ stores = [s \in StoreIds |-> EmptyStore]
  /\ now = 1
  /\ gitServices = NoGs
  /\ fileWatchers = "none"
  /\ fw = [w \in Wids |-> InitW]
  /\ rst = InitRst
  /\ mig = InitMig
  /\ edits = 0
  /\ rd = InitRd

NextFolders ==
  \/ \E p \in FolderPaths : AddFolder(p)
  \/ \E i \in 1..MaxFolders, r \in CustomRoots : ApplyDefaultLocation(i, r)
  \/ \E i \in 1..MaxFolders, r \in CustomRoots \cup {NoRoot}, ok \in BOOLEAN :
       HandleSave(i, r, ok)
  \/ \E i \in 1..MaxFolders, r \in CustomRoots, ok \in BOOLEAN :
       MigrateRepositories(i, r, ok)

SpecFolders == InitFolders /\ [][NextFolders]_vars

\* ---------------------------------------------------------------- C20
\* C20: two folders of the list that are different directories never have
\* the same storage location, whatever add-folder, update-folder and
\* relocations were done, also when their base names are equal.
C20_LocationsDistinct ==
  \A i, j \in DOMAIN watchedFolders :
    watchedFolders[i].path # watchedFolders[j].path
      => gitDirOf(watchedFolders[i]) # gitDirOf(watchedFolders[j])

\* ===================================================== update-folder
\* ipcMain.handle('update-folder') with any partial record of updates:
\* configService.updateFolder merges them into the folder's record; the
\* scheduler is restarted only when updates.commitStrategy is present and a
\* watcher is registered (lines 288-294).
Intervals == {5, 10, 30}
MergeUpdates(fld, u) ==
  [k \in DOMAIN fld |-> IF k \in DOMAIN u THEN u[k] ELSE fld[k]]

UpdateFolderWith(u) ==
  LET m0 == [MainState EXCEPT !.folder = MergeUpdates(folder, u)]
      m1 == stopWatchingFolder(m0)
  IN /\ IF "commitStrategy" \in DOMAIN u /\ fileWatchers # "none"
        THEN /\ CanStart(m1)
             /\ SetMain(startWatchingFolder(m1, fs, "none"))
        ELSE SetMain(m0)
     /\ UNCHANGED <<fs, stores, disk, now, rst, mig, edits, rd,
                    watchedFolders>>

\* the updates Settings.handleSave sends (lines 123-139), and the partial
\* records that name one setting
SettingsUpdates ==
  {[isActive |-> a, commitStrategy |-> s, periodicInterval |-> n,
    watchSubfolders |-> b] :
     a \in BOOLEAN, s \in Strategies, n \in Intervals, b \in BOOLEAN}
PartialUpdates ==
  {[commitStrategy |-> s] : s \in Strategies}
    \cup {[periodicInterval |-> n] : n \in Intervals}

\* The folder is watched and its store exists, the scheduler runs with the
\* strategy and the period of the configuration.
InitUpdate ==
  /\ \E st \in Strategies, n \in Intervals :
       /\ folder = [Folder(NoPath, TRUE, st) EXCEPT !.periodicInterval = n]
       /\ fw = [w \in Wids |->
                  IF w = "w1"
                  THEN Attach([InitW EXCEPT !.strategy = st,
                                            !.periodicInterval = n])
                  ELSE InitW]
  /\ disk = Tree("c1", "c1")
  /\ stores = [s \in StoreIds |->
                 IF s = 1 THEN OneCommit(1, disk) ELSE EmptyStore]
  /\ fs = [p \in Paths |-> IF p = DefaultGitPath THEN FsDir(1) ELSE FsNone]
  /\ now = 1
  /\ gitServices = Gs(NoPath)
  /\ fileWatchers = "w1"
  /\ rst = InitRst
  /\ mig = InitMig
  /\ edits = 0
  /\ rd = InitRd
  /\ watchedFolders = <<>>

NextUpdate ==
  \/ \E u \in SettingsUpdates \cup PartialUpdates : UpdateFolderWith(u)
  \/ StartWatching
  \/ StopWatching
  \/ \E w \in Wids, p \in WatchedPaths : HandleFileChange(w, p)

SpecUpdate == InitUpdate /\ [][NextUpdate]_vars

\* ---------------------------------------------------------------- C22
\* C22: after an update-folder call on a folder whose scheduler is active,
\* the active scheduler's strategy and period are those of the stored
\* configuration, also when the update names periodicInterval alone.
C22_SchedulerFollowsConfig ==
  fileWatchers # "none"
    => /\ fw[fileWatchers].strategy = folder.commitStrategy
       /\ fw[fileWatchers].periodicInterval = folder.periodicInterval

\* ================================== GitService.commit called directly
\* GitService.commit(changedFiles) up to its first await: an empty list
\* returns '' at lines 205-208, before the store is looked at; otherwise the
\* call goes on as in CommitEntryPc.
commitEntryNoCheck(changedFiles, fsv, gs) == CommitEntryPc(fsv, gs)
commitEntry(changedFiles, fsv, gs) ==
  IF changedFiles = <<>> THEN "returned" ELSE CommitEntryPc(fsv, gs)

\* the lists a caller may pass
ChangedLists == {<<>>, <<"a">>, <<"a", "b">>}

\* gitService.commit(changedFiles) called on the GitService of watcher w
\* while no other call of it is in flight; the record of w holds the
\* position of the call as it does for commitPendingChanges
GitServiceCommit(w, changedFiles) ==
  LET r == fw[w]
      pc == commitEntry(changedFiles, fs, r.gs)
  IN /\ r.st = "watching" /\ r.pc = "idle" /\ ~r.isCommitting
     /\ fw' = [fw EXCEPT ![w] =
                 IF pc = "returned"
                 THEN [r EXCEPT !.res = "empty", !.made = FALSE]
                 ELSE [r EXCEPT !.isCommitting = TRUE, !.files = changedFiles,
                                !.pc = pc, !.made = FALSE, !.calls = @ + 1,
                                !.caller = IF pc = "i_init" THEN "commit"
                                           ELSE "none"]]
     /\ UNCHANGED <<fs, stores, disk, now, folder, gitServices, fileWatchers,
                    rst, mig, edits, rd, watchedFolders>>

NextCommit ==
  \/ \E w \in Wids : Scheduler(w)
  \/ \E w \in Wids : InitSteps(w)
  \/ \E f \in UserFiles, c \in Contents \cup {Absent} : Edit(f, c)
  \/ \E w \in Wids, l \in ChangedLists : GitServiceCommit(w, l)

SpecCommit == InitFirst /\ [][NextCommit]_vars

\* a timer of w expires in this step
Trigger(w) == DebounceFire(w) \/ PeriodicTick(w)

\* ---------------------------------------------------------------- C23
\* C23: GitService.commit with an empty list returns '' at once, without
\* error, and leaves the store and its location as they are (no commit, no
\* initialize); a timer that expires with an empty pending set starts no
\* GitService.commit call and reports nothing.
C23_EmptyChangeNoOp ==
  [][\A w \in Wids :
       /\ GitServiceCommit(w, <<>>)
            => /\ fw'[w].res = "empty"
               /\ fw'[w].pc = "idle" /\ fw'[w].calls = fw[w].calls
               /\ stores' = stores /\ fs' = fs /\ disk' = disk
       /\ (Trigger(w) /\ fw[w].pending = <<>>)
            => /\ fw'[w].calls = fw[w].calls
               /\ fw'[w].res = fw[w].res
               /\ fw'[w].pc = fw[w].pc
               /\ stores' = stores /\ fs' = fs]_vars

\* an empty list was passed while the working tree had no .git, and a timer
\* has expired on an empty pending set
C23_Witness ==
  \E w \in Wids :
    /\ fw[w].st = "watching" /\ fw[w].pc = "idle"
    /\ fw[w].res = "empty" /\ ~fw[w].made
    /\ ~existsSync(fs, DefaultGitPath)
    /\ fw[w].pending = <<>> /\ fw[w].periodicTimer

\* ====================================== the resilient lookup, any ref
\* the commits older than position c that touched f and still have it
OlderWith(st, f, c) ==
  {i \in 1..(c - 1) : f \in ChangedFiles(st, i) /\ TreeAt(st, i)[f] # Absent}

\* ---------------------------------------------------------------- C24
\* C24: when the path has no content at the ref asked for, the resilient
\* read (the old side of getDiff) answers with the content of the nearest
\* older commit that touched the path and still has it, and fails only if
\* there is none; for every ref of the history.
C24_ResilientLookupAnyRef ==
  (Asked("get-diff") /\ rd.new = NoRef
     /\ TreeAt(stores[1], AskedPos)[rd.path] = Absent)
    => LET older == OlderWith(stores[1], rd.path, AskedPos)
       IN IF older = {} THEN ~rd.ok
          ELSE /\ rd.ok
               /\ rd.content =
                    TreeAt(stores[1],
                           CHOOSE i \in older : \A k \in older : k <= i)[rd.path]

\* ============================================ a commit attempt fails
\* the step in which w's commit attempt ends with onError
CommitFailed(w) ==
  /\ fw[w].isCommitting
  /\ ~fw'[w].isCommitting
  /\ fw'[w].res = "error"

\* ---------------------------------------------------------------- C25
\* C25: when GitService.commit throws inside commitPendingChanges, onError
\* is called and not onCommit, isCommitting is reset, the paths of the
\* failed attempt are not put back into the pending set, no timer is armed
\* for a retry, no commit is added and the scheduler stays as it was
\* (watching), so that a later event starts a new attempt.
C25_CommitFailureNoRetry ==
  [][\A w \in Wids :
       CommitFailed(w)
         => /\ fw'[w].pending = fw[w].pending
            /\ fw'[w].files = <<>>
            /\ fw'[w].pc = "idle"
            /\ fw'[w].st = fw[w].st
            /\ fw'[w].armed = fw[w].armed
            /\ fw'[w].periodicTimer = fw[w].periodicTimer
            /\ stores' = stores]_vars

\* an attempt for "b" has failed: the scheduler is watching, idle, and "b"
\* is not pending
C25_Witness ==
  \E w \in Wids :
    /\ fw[w].st = "watching" /\ fw[w].res = "error"
    /\ ~fw[w].isCommitting /\ fw[w].pc = "idle"
    /\ fw[w].pending = <<>>

\* ================================================ stopping a scheduler
\* The scheduler of Init with the user's edits of file "a", stopped and
\* started again through the main process.
NextStop ==
  \/ \E w \in Wids : SchedulerOn(w, {"a"})
  \/ \E c \in Contents \cup {Absent} : Edit("a", c)
  \/ StopWatching
  \/ StartWatching

SpecStop == Init /\ [][NextStop]_vars

\* ---------------------------------------------------------------- C26
\* C26: once FileWatcher.stop() has returned, the instance has no observer
\* and no armed timer, takes no further event and starts no commit attempt;
\* a commit in flight may still return.
C26_StopCancelsAll ==
  [][\A w \in Wids :
       /\ fw'[w].st = "stopped"
            => /\ fw'[w].armed = {}
               /\ ~fw'[w].periodicTimer
               /\ fw'[w].debounceTimer = 0
       /\ fw[w].st = "stopped"
            => /\ fw'[w].st \in {"stopped", "unused"}
               /\ fw'[w].calls <= fw[w].calls
               /\ fw'[w].st = "stopped" => fw'[w].pending = fw[w].pending]_vars

\* stop() was called with a commit in flight, a debounce timer armed and a
\* path pending
C26_Witness ==
  \E w \in Wids :
    /\ fw[w].st = "stopped"
    /\ fw[w].isCommitting
    /\ fw[w].pending # <<>>

\* ========================================= after a successful relocate
\* relocate has returned success and did not take the same-path branch
Relocated == mig.pc = "done" /\ mig.result = "ok" /\ mig.old # mig.target

\* ---------------------------------------------------------------- C27
\* C27: after relocate has returned success, the configuration and the
\* registered GitService name newLocation, a store is at newLocation, the
\* git commands of that GitService (getCommits, the next commit) act on
\* that store, and oldLocation holds no store.
C27_OperationsFollowStore ==
  Relocated
    => /\ EffectivePath(folder) = mig.target
       /\ gitServices = Gs(folder.customGitPath)
       /\ ResolveDir(fs, mig.target) # 0
       /\ listCommits(fs, stores).ok
       /\ Resolve(fs) = ResolveDir(fs, mig.target)
       /\ fs[mig.old].k # "dir"


\* ============================================ conflict, destination wins
\* stores with commits at both locations, the source's last commit not
\* later than the destination's
DestinationNewerOrEqual ==
  /\ mig.old # mig.target
  /\ mig.preFs[mig.old].k = "dir"
  /\ mig.preFs[mig.target].k = "dir"
  /\ PreLast(mig.old) # 0
  /\ PreLast(mig.target) # 0
  /\ PreLast(mig.old) <= PreLast(mig.target)

\* ---------------------------------------------------------------- C28
\* C28: a relocation that found stores with commits at both locations, the
\* source's last commit older than or as old as the destination's, and whose
\* rename did not throw, leaves the directory and the commits at the new
\* location as they were, has renamed the source to a backup path of the
\* old location (one rename, nothing left at the old location), and has
\* set the configuration to the new location.
C28_DestinationWins ==
  (mig.pc \in {"verify", "await_start", "done"} /\ DestinationNewerOrEqual
     /\ mig.result # "fail_merge" /\ mig.after # "fail_merge")
    => /\ ~mig.replaced
       /\ mig.renames = 1
       /\ fs[mig.target] = mig.preFs[mig.target]
       /\ stores[fs[mig.target].s].commits = mig.preCommits[mig.preFs[mig.target].s]
       /\ \E t \in 1..MaxClock :
            fs[BackupPath(mig.old, t)] = mig.preFs[mig.old]
       /\ fs[mig.old].k = "none"
       /\ folder.customGitPath = NewCustomGitPath(mig.target)

\* a relocation returned after the source, as old as the destination, was
\* set aside
C28_Witness ==
  /\ mig.pc = "done"
  /\ DestinationNewerOrEqual
  /\ PreLast(mig.old) = PreLast(mig.target)
  /\ mig.renames = 1
  /\ mig.result = "ok"


\* ============================================== verification has failed
\* relocate returned 'Migration completed but Git repository is not
\* accessible'
VerifyFailed == mig.pc = "done" /\ mig.result = "fail_verify"

\* ---------------------------------------------------------------- C29
\* C29: when the verifying getCommits(1) throws, relocate returns a failure,
\* the configuration and the registered GitService name the new location,
\* and every rename made stays: nothing is back at the old location, the
\* new location holds what was moved there (or, where the destination won,
\* what it held), a set-aside directory is still at its backup path, and
\* the step that reports the failure changes neither the filesystem nor
\* the configuration.
C29_VerifyFailureKeepsMove ==
  /\ VerifyFailed
       => /\ mig.renames >= 1
          /\ folder.customGitPath = NewCustomGitPath(mig.target)
          /\ gitServices = Gs(NewCustomGitPath(mig.target))
          /\ fs[mig.old].k = "none"
          /\ fs[mig.target] = IF mig.renames = 1 /\ mig.preFs[mig.target].k # "none"
                              THEN mig.preFs[mig.target] ELSE mig.preFs[mig.old]
          /\ mig.renames = 2
               => \E t \in 1..MaxClock :
                    fs[BackupPath(mig.target, t)] = mig.preFs[mig.target]
          /\ (mig.renames = 1 /\ mig.preFs[mig.target].k # "none")
               => \E t \in 1..MaxClock :
                    fs[BackupPath(mig.old, t)] = mig.preFs[mig.old]
  /\ (mig.pc = "verify" /\ ~listCommits(fs, stores).ok)
       => /\ folder.customGitPath = NewCustomGitPath(mig.target)
          /\ ENABLED MigVerify

\* relocate returned the verification failure after a plain move
C29_Witness ==
  /\ VerifyFailed
  /\ mig.renames = 1
  /\ mig.preFs[mig.target].k = "none"
  /\ folder.customGitPath # mig.preCustom


\* ==================================================== watchSubfolders
\* In this specification file "b" lies in a subdirectory of the working
\* folder and file "a" directly in it.
InSubfolder(p) == p = "b"

\* chokidar.watch(watchPath, {depth}), lines 517-521: depth undefined
\* reports every path below watchPath, depth 0 only its direct children
Observed(r, p) == r.watchDepth = "all" \/ ~InSubfolder(p)

\* The folder is configured, with either value of watchSubfolders, and not
\* watched; its store holds the initial commit of the working tree.
InitDepth ==
  /\ \E st \in Strategies, sub \in BOOLEAN :
       folder = [Folder(NoPath, FALSE, st) EXCEPT !.watchSubfolders = sub]
  /\ disk = Tree("c1", "c1")
  /\ stores = [s \in StoreIds |->
                 IF s = 1 THEN OneCommit(1, disk) ELSE EmptyStore]
  /\ fs = [p \in Paths |-> IF p = DefaultGitPath THEN FsDir(1) ELSE FsNone]
  /\ now = 1
  /\ gitServices = NoGs
  /\ fileWatchers = "none"
  /\ fw = [w \in Wids |-> InitW]
  /\ rst = InitRst
  /\ mig = InitMig
  /\ edits = 0
  /\ rd = InitRd
  /\ watchedFolders = <<>>

\* an add / change / unlink event of the observer for a path it reports
ObserveChange(w, p) == Observed(fw[w], p) /\ HandleFileChange(w, p)

\* the user edits the nested file; events may come for either file
NextDepth ==
  \/ StartWatching
  \/ \E w \in Wids, p \in UserFiles : ObserveChange(w, p)
  \/ \E w \in Wids : DebounceFire(w)
  \/ \E w \in Wids : PeriodicTick(w)
  \/ \E w \in Wids : CStatus0(w) \/ CLog(w) \/ CAdd(w) \/ CStatus(w) \/ CCommit(w)
  \/ \E c \in Contents \cup {Absent} : Edit("b", c)

SpecDepth == InitDepth /\ [][NextDepth]_vars

\* ---------------------------------------------------------------- C30
\* C30: a scheduler started for a folder whose watchSubfolders setting is
\* false observes direct children only: the path of a file in a
\* subdirectory is never in its pending set and never among the files of a
\* commit it starts.
C30_WatchSubfoldersHonoured ==
  \A w \in Wids :
    (fw[w].st # "unused" /\ ~folder.watchSubfolders)
      => \A p \in UserFiles :
           InSubfolder(p) => (p \notin Range(fw[w].pending)
                              /\ p \notin Range(fw[w].files))


\* ========================================================= two folders
\* The folder of the model is folder A.  Folder B is a second folder of the
\* configuration: another directory with the same base name, stored under a
\* custom root.  Its record is the one entry of watchedFolders, its
\* FileWatcher is the instance OtherWatcher, its store the directory at
\* OtherLocation.  OtherLocation is `${root}/${name}-git`, which is also the
\* path Settings.handleSave computes for folder A and that root, the two
\* names being equal.
OtherWatcher == "w2"
OwnWatchers == Wids \ {OtherWatcher}
OtherLocation == P("X")
OtherStore == 1
OtherFolder ==
  [id |-> 2, path |-> <<"b", "proj">>, name |-> basename(<<"b", "proj">>),
   customGitPath |-> OtherLocation]

\* Folder B is watched and has a pending path; folder A is watched and has
\* its store in the default location, or was just added and has never been
\* started; the last commits of the two stores have different dates.
InitTwo ==
  /\ \E st \in Strategies, started \in BOOLEAN, ta \in 1..2, tb \in 1..2 :
       /\ ta # tb
       /\ folder = Folder(NoPath, started, st)
       /\ fs = [p \in Paths |->
                  IF p = DefaultGitPath /\ started THEN FsDir(2)
                  ELSE IF p = OtherLocation THEN FsDir(OtherStore) ELSE FsNone]
       /\ stores = [s \in StoreIds |->
                      IF s = 2 /\ started THEN StoreAt(2, ta)
                      ELSE IF s = OtherStore THEN StoreAt(OtherStore, tb)
                      ELSE EmptyStore]
       /\ fw = [w \in Wids |->
                  IF w = OtherWatcher
                  THEN Attach([InitW EXCEPT !.gs = OtherLocation,
                                            !.strategy = "periodic",
                                            !.pending = <<"a">>])
                  ELSE IF started THEN Attach([InitW EXCEPT !.strategy = st])
                  ELSE InitW]
       /\ fileWatchers = IF started THEN "w1" ELSE "none"
       /\ gitServices = IF started THEN Gs(NoPath) ELSE NoGs
  /\ disk = Tree("c1", Absent)
  /\ now = 2
  /\ rst = InitRst
  /\ mig = InitMig
  /\ edits = 0
  /\ rd = InitRd
  /\ watchedFolders = <<OtherFolder>>

\* every step is an operation on folder A; its relocations go to the
\* custom root and back to the default location
NextTwo ==
  \/ StartWatching
  \/ \E target \in {DefaultGitPath, OtherLocation} : Migrate(target)
  \/ \E w \in OwnWatchers : InitSteps(w)
  \/ \E w \in OwnWatchers : SchedulerOn(w, {"a"})
  \/ Edit("a", "c2")

SpecTwo == InitTwo /\ [][NextTwo]_vars

\* ---------------------------------------------------------------- C21
\* C21: no operation on folder A, failing or not (start, scheduler events
\* and commits, relocation), changes folder B's FileWatcher (observer,
\* timers, isCommitting, pending set), folder B's record in the
\* configuration, or folder B's store: the directory at its location and
\* the commits in it.
C21_FolderIsolation ==
  [][/\ fw'[OtherWatcher] = fw[OtherWatcher]
     /\ watchedFolders' = watchedFolders
     /\ fs'[OtherLocation] = fs[OtherLocation]
     /\ stores'[OtherStore] = stores[OtherStore]]_vars


\* ======================================== what a later commit records
\* the commit at position i of st was made by GitService.commit on a store
\* that had commits (message 'Auto-commit: ... - [files]')
AutoCommitAt(st, i) == i \in 2..Len(st.commits) /\ st.commits[i].msg.kind = "Auto"

\* a store in which both files are tracked: the initial commit, then an
\* auto-commit of a change of "a"
TwoFileChain(sid) ==
  [commits |-> <<[hash |-> <<sid, 1>>, time |-> 1,
                  msg |-> Msg("InitialLV", <<>>, NoRef),
                  tree |-> Tree("c1", "c1")],
                 [hash |-> <<sid, 2>>, time |-> 1,
                  msg |-> Msg("Auto", <<"a">>, NoRef),
                  tree |-> Tree("c2", "c1")]>>,
   index |-> Tree("c2", "c1")]

\* The folder is watched under either strategy; both files are tracked and
\* "b" may have been saved since the last commit.
InitOverlap ==
  /\ \E d \in Contents : disk = Tree("c2", d)
  /\ stores = [s \in StoreIds |-> IF s = 1 THEN TwoFileChain(1) ELSE EmptyStore]
  /\ \E st \in Strategies :
       /\ folder = Folder(NoPath, TRUE, st)
       /\ fw = [w \in Wids |->
                  IF w = "w1" THEN Attach([InitW EXCEPT !.strategy = st])
                  ELSE InitW]
  /\ fs = [p \in Paths |-> IF p = DefaultGitPath THEN FsDir(1) ELSE FsNone]
  /\ now = 1
  /\ gitServices = Gs(NoPath)
  /\ fileWatchers = "w1"
  /\ rst = InitRst
  /\ mig = InitMig
  /\ edits = 0
  /\ rd = InitRd
  /\ watchedFolders = <<>>

\* the scheduler's commits beside restore-file calls
SpecOverlap == InitOverlap /\ [][NextRestore]_vars

\* the staging step of GitService.commit on a store with commits finds
\* nothing else staged, stages for every named path the content on disk, a
\* path missing on disk as a deletion, and leaves the rest of the index
StagesNamedPaths ==
  [][\A w \in Wids :
       (fw[w].pc = "c_add" /\ fw[w].hasCommits /\ fw'[w].pc = "c_status")
         => LET s == Resolve(fs) IN
            /\ stores[s].index = HeadTree(stores[s])
            /\ \A f \in Files :
                 stores'[s].index[f] =
                   IF f \in Range(fw[w].files) THEN disk[f]
                   ELSE stores[s].index[f]]_vars

\* ---------------------------------------------------------------- C31
\* C31: a commit made by GitService.commit(changedPaths) on a store that
\* already had commits differs from its predecessor only in the named
\* paths: every path that is not named has in it the content it had in the
\* previous commit.
C31_OnlyNamedPaths ==
  \A s \in StoreIds : \A i \in 1..Len(stores[s].commits) :
    AutoCommitAt(stores[s], i)
      => \A f \in Files \ Range(stores[s].commits[i].msg.files) :
           TreeAt(stores[s], i)[f] = TreeAt(stores[s], i - 1)[f]


\* ====================================================== listing commits
\* git show --name-only --pretty=format: <hash>: the paths the commit
\* changed relative to its parent, every path of its tree for a root commit
ShowNameOnly(st, i) == ChangedFiles(st, i)
\* git diff --stat <hash>^ <hash>: throws for the root commit (no parent)
DiffSummaryOk(st, i) == i > 1
DiffSummary(st, i) == ChangedFiles(st, i)

\* GitService.getCommits(limit), lines 265-318: git log --max-count=limit
\* (newest first); changedFiles by git show for the last entry of the list,
\* by git diff for the others, by git show again when git diff throws
getCommits(st, limit) ==
  LET n == Cardinality(Window(st, limit))
      pos(k) == Len(st.commits) - k + 1
  IN [k \in 1..n |->
        [hash |-> st.commits[pos(k)].hash,
         changedFiles |->
           IF k = n THEN ShowNameOnly(st, pos(k))
           ELSE IF DiffSummaryOk(st, pos(k)) THEN DiffSummary(st, pos(k))
           ELSE ShowNameOnly(st, pos(k))]]

\* the limits the callers pass: relocation's verification, the default, the
\* history view
Limits == {1, 50, 100}

\* ipcMain.handle('get-commits')
GetCommits(limit) ==
  LET s == Resolve(fs) IN
  /\ rd' = [op |-> "get-commits", limit |-> limit, ok |-> s # 0,
            commits |-> IF s # 0 THEN getCommits(stores[s], limit) ELSE <<>>]
  /\ gitServices' = getOrCreateGitService(MainState)
  /\ UNCHANGED <<fs, stores, disk, now, folder, fileWatchers, fw, rst, mig,
                 edits, watchedFolders>>

NextList == \E limit \in Limits : GetCommits(limit)

SpecList == InitRead /\ [][NextList]_vars

\* every path the tree of the commit at position i holds
TrackedAt(st, i) == {f \in Files : TreeAt(st, i)[f] # Absent}

\* ---------------------------------------------------------------- C32
\* C32: getCommits(limit) returns the newest min(limit, length) commits,
\* newest first; changedFiles of the oldest commit returned is every path
\* tracked at that commit, also when the limit cut the history and that
\* commit has a parent; changedFiles of every other commit is the set of
\* paths that differ from its immediate predecessor.
C32_ChangedFilesPerCommit ==
  (rd.op = "get-commits" /\ rd.ok)
    => LET st == stores[Resolve(fs)]
           n == Len(rd.commits)
       IN /\ n = IF rd.limit < Len(st.commits) THEN rd.limit ELSE Len(st.commits)
          /\ \A k \in 1..n :
               LET i == Len(st.commits) - k + 1 IN
               /\ rd.commits[k].hash = st.commits[i].hash
               /\ rd.commits[k].changedFiles =
                    IF k = n THEN TrackedAt(st, i)
                    ELSE {f \in Files : TreeAt(st, i)[f] # TreeAt(st, i - 1)[f]}


\* =================================================== strategy and timers
\* a commit attempt of instance w starts in this step
AttemptStarts(w) == ~fw[w].isCommitting /\ fw'[w].isCommitting

\* ---------------------------------------------------------------- C33
\* C33: a scheduler with the periodic strategy never has a debounce timer
\* armed, and one with the on-save strategy never has the periodic timer;
\* under the periodic strategy a commit attempt starts only in a periodic
\* tick, and a tick that finds paths pending and no commit in flight hands
\* exactly the pending set to the commit and empties it, and otherwise
\* changes nothing.
C33_StrategyAndTimers ==
  /\ [](\A w \in Wids :
          /\ fw[w].strategy = "periodic"
               => (fw[w].armed = {} /\ fw[w].debounceTimer = 0)
          /\ fw[w].strategy = "on-save" => ~fw[w].periodicTimer)
  /\ [][\A w \in Wids :
          fw[w].strategy = "periodic"
            => /\ AttemptStarts(w) => PeriodicTick(w)
               /\ PeriodicTick(w)
                    => IF fw[w].pending # <<>> /\ ~fw[w].isCommitting
                       THEN /\ fw'[w].isCommitting
                            /\ fw'[w].files = fw[w].pending
                            /\ fw'[w].pending = <<>>
                       ELSE fw'[w] = fw[w]]_vars

\* a periodic tick has started a commit of a pending path, and a path has
\* come in since
C33_Witness ==
  \E w \in Wids :
    /\ fw[w].strategy = "periodic"
    /\ fw[w].periodicTimer
    /\ fw[w].isCommitting
    /\ fw[w].files # <<>>
    /\ fw[w].pending # <<>>


\* ================================================= the isActive flag
\* no start-watching, update-folder or migrate-git-repository call is
\* waiting for a git command
CallsCompleted ==
  /\ mig.pc \in {"idle", "done"}
  /\ \A w \in Wids : fw[w].st # "starting"

\* ---------------------------------------------------------------- C34
\* C34: whenever the calls made so far have completed, the folder's stored
\* isActive flag is true exactly when a FileWatcher is registered for the
\* folder and watching, also after update-folder calls whose updates carry
\* isActive.
C34_ActiveIffWatching ==
  CallsCompleted
    => (folder.isActive
          <=> (fileWatchers # "none" /\ fw[fileWatchers].st = "watching"))


\* ======================================================== remove-folder
\* ipcMain.handle('remove-folder') (lines 271-281): the registered
\* FileWatcher is stopped and unregistered, the cached GitService is
\* dropped, and ConfigService.removeFolder filters the record out
RemoveFolder ==
  /\ Listed(folder)
  /\ fw' = IF fileWatchers # "none"
           THEN [fw EXCEPT ![fileWatchers] = StopW(fw[fileWatchers])]
           ELSE fw
  /\ fileWatchers' = "none"
  /\ gitServices' = NoGs
  /\ folder' = RemovedFolder
  /\ UNCHANGED <<fs, stores, disk, now, rst, mig, edits, rd, watchedFolders>>

NextRemove ==
  \/ StartWatching
  \/ StopWatching
  \/ RemoveFolder
  \/ \E w \in Wids : InitSteps(w)

SpecRemove == InitStart /\ [][NextRemove]_vars

\* a scheduler that observes the folder or holds a timer
SchedulerActive(r) ==
  r.st = "watching" \/ r.periodicTimer \/ r.debounceTimer # 0

\* C35: once remove-folder has returned, the folder is absent from the
\* configuration, no GitService is cached, no scheduler of the folder is
\* registered or active, then or later; the removal itself changes neither
\* the stores on disk nor the working-tree files
C35_RemovedStaysRemoved ==
  /\ [](~Listed(folder) =>
          /\ fileWatchers = "none"
          /\ gitServices = NoGs
          /\ \A w \in Wids : ~SchedulerActive(fw[w]))
  /\ [][/\ ~Listed(folder) => ~Listed(folder')
        /\ (Listed(folder) /\ ~Listed(folder')) =>
             (fs' = fs /\ stores' = stores /\ disk' = disk)]_vars

\* ---------------------------------------------------------------- C36
\* C36: if a store directory was at the folder's effective storage location
\* when migrate-git-repository was called, then when the call has returned,
\* with success or with any failure, a store directory is at the folder's
\* effective storage location.
C36_EffectiveLocationHoldsStore ==
  (mig.pc = "done" /\ mig.preFs[mig.old].k = "dir")
    => fs[EffectivePath(folder)].k = "dir"

\* ================================================= start and initialize
\* the git command initialize() is waiting for fails: git init on a
\* dangling link or onto an occupied directory, any later command when the
\* working folder has no repository (git config errors are swallowed)
GitCommandFails(r) ==
  IF r.pc = "i_init" THEN ~GitInitOk(fs, r.gs)
  ELSE IF r.pc = "i_config" THEN FALSE
  ELSE Resolve(fs) = 0

\* w's start() is inside initialize()
StartInitializing(w) == fw[w].st = "starting" /\ fw[w].caller = "start"

\* the main state after the step
MainStateNext ==
  [fw |-> fw', fileWatchers |-> fileWatchers', gitServices |-> gitServices',
   folder |-> folder', suspended |-> FALSE]

\* a start-watching call made in the next state constructs a FileWatcher
\* and calls initialize(): it is suspended in git init, or initialize() has
\* found the git directory and start() has attached
StartWouldInitialize ==
  LET m == startWatchingFolder(MainStateNext, fs', "none")
  IN m.suspended \/ m.fileWatchers # "none"

\* C37: while start() is inside initialize() the FileWatcher has no
\* observer and no timer and is not registered; it gets them only in a step
\* in which initialize() returns normally; when the git command initialize()
\* waits for fails, start() ends with the instance holding no observer and
\* no timer, the registry is as before and does not hold the instance, and
\* a start-watching call made when no FileWatcher is registered runs
\* initialize() again.
C37_StartAfterInitialize ==
  /\ [](\A w \in Wids :
          StartInitializing(w)
            => ~SchedulerActive(fw[w]) /\ fileWatchers # w)
  /\ [][\A w \in Wids :
          (StartInitializing(w) /\ fw'[w] # fw[w])
            => IF GitCommandFails(fw[w])
               THEN /\ ~SchedulerActive(fw'[w])
                    /\ fw'[w].st # "starting"
                    /\ fileWatchers' = fileWatchers
                    /\ fileWatchers' = "none" => StartWouldInitialize
               ELSE \/ StartInitializing(w)'
                    \/ /\ fw'[w].st = "watching"
                       /\ fileWatchers' = w]_vars

\* start-watching is inside initialize(), which has written .gitignore, and
\* the git command it waits for fails; nothing is registered
C37_Witness ==
  \E w \in Wids :
    /\ StartInitializing(w)
    /\ fw[w].parent = "none"
    /\ fw[w].pc \in InitPcs \ {"i_init", "i_config"}
    /\ GitCommandFails(fw[w])
    /\ fileWatchers = "none"
=============================================================================
